---- MODULE Spec2Model ----
(***************************************************************************)
(* A model of the namespace-containers runtime: command-line parsing       *)
(* (config.go), the parent -> child environment bridge and the container   *)
(* lifecycle (container.go, main.go), network setup (network.go) and the   *)
(* helpers of utils.go.                                                    *)
(*                                                                         *)
(* Strings are TLA+ strings; Len, \o and SubSeq act on them character by   *)
(* character, so parsing and formatting are computed, not assumed.         *)
(***************************************************************************)
EXTENDS Integers, Sequences, FiniteSets, Bags, TLC

(***************************************************************************)
(* Bounds of the model.                                                    *)
(***************************************************************************)
\* longest argument list handed to ParseFlags
MaxArgs == 3
\* most colon-separated fields in a mount string handed to parseMount
MaxFields == 4
\* most mounts in a config sent through the environment
MaxMounts == 2
\* largest exit code of the user command
MaxExit == 2
MaxCalls == 3

(***************************************************************************)
(* String helpers (Go's strings package and strconv).                      *)
(***************************************************************************)
Char(s, i) == SubSeq(s, i, i)

\* Body(v), with v computed once (a local variable of the code)
With(v, Body(_)) == CHOOSE r \in {Body(x) : x \in {v}} : TRUE

\* strings.HasPrefix
HasPrefix(s, p) == Len(s) >= Len(p) /\ SubSeq(s, 1, Len(p)) = p

\* index of the first occurrence of the one-character string c in s at or
\* after position from, 0 when there is none
IndexFrom(s, c, from) ==
    IF \E i \in from..Len(s) : Char(s, i) = c
    THEN CHOOSE i \in from..Len(s) :
            /\ Char(s, i) = c
            /\ \A j \in from..(i - 1) : Char(s, j) # c
    ELSE 0

\* strings.Split(s, sep) for a one-character separator
RECURSIVE Split(_, _)
Split(s, sep) ==
    LET i == IndexFrom(s, sep, 1)
    IN  IF i = 0 THEN <<s>>
        ELSE <<SubSeq(s, 1, i - 1)>> \o Split(SubSeq(s, i + 1, Len(s)), sep)

\* strings.Join
RECURSIVE Join(_, _)
Join(parts, sep) ==
    IF Len(parts) = 0 THEN ""
    ELSE IF Len(parts) = 1 THEN parts[1]
    ELSE parts[1] \o sep \o Join(Tail(parts), sep)

Digits == <<"0", "1", "2", "3", "4", "5", "6", "7", "8", "9">>

IsDigit(c) == \E d \in 1..10 : Digits[d] = c

DigitVal(c) == (CHOOSE d \in 1..10 : Digits[d] = c) - 1

\* value of a non-empty string of decimal digits
RECURSIVE DigitsVal(_)
DigitsVal(s) ==
    IF Len(s) = 0 THEN 0
    ELSE 10 * DigitsVal(SubSeq(s, 1, Len(s) - 1)) + DigitVal(Char(s, Len(s)))

AllDigits(s) == Len(s) > 0 /\ \A i \in 1..Len(s) : IsDigit(Char(s, i))

\* strconv.Atoi: an optional sign and at least one decimal digit
Atoi(s) ==
    LET signed == Len(s) > 0 /\ Char(s, 1) \in {"+", "-"}
        body   == IF signed THEN SubSeq(s, 2, Len(s)) ELSE s
    IN  IF ~AllDigits(body) THEN [ok |-> FALSE, val |-> 0]
        ELSE [ok  |-> TRUE,
              val |-> IF signed /\ Char(s, 1) = "-"
                      THEN 0 - DigitsVal(body) ELSE DigitsVal(body)]

\* strconv.Itoa / fmt's %d
RECURSIVE ItoaNat(_)
ItoaNat(n) ==
    IF n < 10 THEN Digits[n + 1]
    ELSE ItoaNat(n \div 10) \o Digits[(n % 10) + 1]

Itoa(n) == IF n < 0 THEN "-" \o ItoaNat(0 - n) ELSE ItoaNat(n)

(***************************************************************************)
(* config.go                                                               *)
(***************************************************************************)
\* Mount{Source, Destination, ReadOnly}
MkMount(src, dst, ro) == [Source |-> src, Destination |-> dst, ReadOnly |-> ro]

\* the zero ContainerConfig
ZeroConfig ==
    [Hostname |-> "", RootFS |-> "", Mounts |-> <<>>, NetworkCIDR |-> "",
     HostIP |-> "", ContainerIP |-> "", Command |-> <<>>]

NewDefaultConfig ==
    [Hostname    |-> "container",
     RootFS      |-> "./namespace_fs",
     Mounts      |-> <<>>,
     NetworkCIDR |-> "192.168.1.0/24",
     HostIP      |-> "192.168.1.1",
     ContainerIP |-> "192.168.1.2",
     Command     |-> <<>>]

\* parseMount: "host_path:container_path[:ro]"
parseMount(mountStr) ==
    LET parts == Split(mountStr, ":")
    IN  IF Len(parts) < 2 \/ Len(parts) > 3
        THEN [ok |-> FALSE, mount |-> MkMount("", "", FALSE)]
        ELSE [ok    |-> TRUE,
              mount |-> MkMount(parts[1], parts[2],
                                Len(parts) = 3 /\ parts[3] = "ro")]

\* the flags ParseFlags defines on its flag set, with their defaults
FlagDefaults ==
    [hostname       |-> NewDefaultConfig.Hostname,
     rootfs         |-> NewDefaultConfig.RootFS,
     network        |-> NewDefaultConfig.NetworkCIDR,
     host_ip        |-> NewDefaultConfig.HostIP,
     container_ip   |-> NewDefaultConfig.ContainerIP,
     mount          |-> <<>>,
     err            |-> ""]

StringFlags == {"hostname", "rootfs", "network", "host-ip", "container-ip"}
DefinedFlags == StringFlags \cup {"mount"}

\* Value.Set of the flag called name
SetFlag(acc, name, value) ==
    CASE name = "hostname"     -> [acc EXCEPT !.hostname = value]
      [] name = "rootfs"       -> [acc EXCEPT !.rootfs = value]
      [] name = "network"      -> [acc EXCEPT !.network = value]
      [] name = "host-ip"      -> [acc EXCEPT !.host_ip = value]
      [] name = "container-ip" -> [acc EXCEPT !.container_ip = value]
      [] name = "mount"        -> [acc EXCEPT !.mount = Append(@, value)]

\* flagSet.Parse: the standard library's FlagSet.Parse over the flags above.
\* err is "" on success, "help" for -h/-help, and a message otherwise.
RECURSIVE flagSetParse(_, _)
flagSetParse(args, acc) ==
    IF Len(args) = 0 THEN acc
    ELSE
    LET s == Head(args)
    IN  IF Len(s) < 2 \/ Char(s, 1) # "-" THEN acc
        ELSE IF s = "--" THEN acc
        ELSE
        LET numMinuses == IF Char(s, 2) = "-" THEN 2 ELSE 1
            name0      == SubSeq(s, numMinuses + 1, Len(s))
        IN  IF Len(name0) = 0 \/ Char(name0, 1) = "-" \/ Char(name0, 1) = "="
            THEN [acc EXCEPT !.err = "bad flag syntax: " \o s]
            ELSE
            LET eq       == IndexFrom(name0, "=", 2)
                name     == IF eq = 0 THEN name0 ELSE SubSeq(name0, 1, eq - 1)
                rest     == Tail(args)
                hasValue == eq # 0 \/ Len(rest) > 0
                value    == IF eq # 0 THEN SubSeq(name0, eq + 1, Len(name0))
                            ELSE IF Len(rest) > 0 THEN Head(rest) ELSE ""
                after    == IF eq = 0 /\ Len(rest) > 0 THEN Tail(rest) ELSE rest
            IN  IF name \notin DefinedFlags
                THEN IF name \in {"help", "h"}
                     THEN [acc EXCEPT !.err = "help"]
                     ELSE [acc EXCEPT !.err =
                              "flag provided but not defined: -" \o name]
                ELSE IF ~hasValue
                THEN [acc EXCEPT !.err = "flag needs an argument: -" \o name]
                ELSE flagSetParse(after, SetFlag(acc, name, value))

\* the loop "for i, arg := range args" of ParseFlags: the 0-based index of
\* the first argument that does not begin with "-", 0 when there is none
CommandStart(args) ==
    IF \E i \in 1..Len(args) : ~HasPrefix(args[i], "-")
    THEN (CHOOSE i \in 1..Len(args) :
            /\ ~HasPrefix(args[i], "-")
            /\ \A j \in 1..(i - 1) : HasPrefix(args[j], "-")) - 1
    ELSE 0

\* the loop over mountFlags: the mounts parsed so far and the first string
\* that parseMount rejects
RECURSIVE ParseMounts(_)
ParseMounts(strs) ==
    IF Len(strs) = 0 THEN [ok |-> TRUE, mounts |-> <<>>, bad |-> ""]
    ELSE LET m == parseMount(Head(strs))
         IN  IF ~m.ok THEN [ok |-> FALSE, mounts |-> <<>>, bad |-> Head(strs)]
             ELSE LET r == ParseMounts(Tail(strs))
                  IN  [r EXCEPT !.mounts = <<m.mount>> \o @]

\* results of ParseFlags: kind "ok" (a config), "err" (an error is returned)
\* or "exit" (the flag set, built with flag.ExitOnError, ends the process)
PFOk(cfg)    == [kind |-> "ok", config |-> cfg, err |-> "", code |-> 0]
PFErr(msg)   == [kind |-> "err", config |-> ZeroConfig, err |-> msg, code |-> 0]
PFExit(code) == [kind |-> "exit", config |-> ZeroConfig, err |-> "", code |-> code]

\* config.Command as ParseFlags sets it
CommandOf(args) ==
    LET commandStart == CommandStart(args)
    IN  IF commandStart = 0 THEN args
        ELSE SubSeq(args, commandStart + 1, Len(args))

\* the default /app mount, added when no mount is configured and os.Getwd
\* succeeds; getwd is the result of os.Getwd: [ok, dir]
DefaultMountsAlways(mounts, getwd) ==
    IF Len(mounts) = 0 THEN <<MkMount(getwd.dir, "/app", FALSE)>> ELSE mounts

DefaultMounts(mounts, getwd) ==
    IF Len(mounts) = 0
    THEN IF getwd.ok THEN <<MkMount(getwd.dir, "/app", FALSE)>> ELSE <<>>
    ELSE mounts

\* ParseFlags(args); getwd is what os.Getwd returns in this process
ParseFlags(args, getwd) ==
    LET commandStart == CommandStart(args)
        parsed  == IF commandStart = 0 THEN FlagDefaults
                   ELSE flagSetParse(SubSeq(args, 1, commandStart), FlagDefaults)
        command == CommandOf(args)
        pm      == ParseMounts(parsed.mount)
    IN  IF parsed.err = "help" THEN PFExit(0)
        ELSE IF parsed.err # "" THEN PFExit(2)
        ELSE IF ~pm.ok
        THEN PFErr("invalid mount specification '" \o pm.bad \o "'")
        ELSE IF Len(command) = 0 THEN PFErr("no command specified")
        ELSE PFOk([Hostname    |-> parsed.hostname,
                   RootFS      |-> parsed.rootfs,
                   Mounts      |-> DefaultMounts(pm.mounts, getwd),
                   NetworkCIDR |-> parsed.network,
                   HostIP      |-> parsed.host_ip,
                   ContainerIP |-> parsed.container_ip,
                   Command     |-> command])

(***************************************************************************)
(* utils.go                                                                *)
(***************************************************************************)
\* results of parsePID
IntOk(n) == [ok |-> TRUE, val |-> n]
IntErr   == [ok |-> FALSE, val |-> 0]

\* parsePID without its "pid <= 0" check
parsePIDAnySign(pidStr) ==
    LET a == Atoi(pidStr)
    IN  IF ~a.ok THEN IntErr ELSE IntOk(a.val)

\* parsePID: strconv.Atoi, then the value must be positive
parsePID(pidStr) ==
    LET a == Atoi(pidStr)
    IN  IF ~a.ok THEN IntErr
        ELSE IF a.val <= 0 THEN IntErr
        ELSE IntOk(a.val)

\* checkRoot with the root check left out
checkRootAnyone(uid) == ""

\* checkRoot: "" (nil) or the error; uid is what os.Geteuid returns
checkRoot(uid) ==
    IF uid # 0 THEN "this program must be run as root" ELSE ""

\* validateCommand
validateCommand(command) ==
    IF Len(command) = 0 THEN "command cannot be empty"
    ELSE IF command[1] = "" THEN "command name cannot be empty"
    ELSE ""

\* validatePath; files is the set of paths that exist (fileExists)
validatePath(path, files) ==
    IF path = "" THEN "path cannot be empty"
    ELSE IF path \notin files THEN "path does not exist: " \o path
    ELSE ""

(***************************************************************************)
(* container.go: the environment bridge.                                   *)
(* An environment is a sequence of "KEY=VALUE" strings, as cmd.Env is.     *)
(***************************************************************************)
\* fmt.Sprintf("KEY=%s", value)
EnvEntry(key, value) == key \o "=" \o value

EntryKey(e) ==
    LET i == IndexFrom(e, "=", 1) IN IF i = 0 THEN e ELSE SubSeq(e, 1, i - 1)

EntryValue(e) ==
    LET i == IndexFrom(e, "=", 1) IN IF i = 0 THEN "" ELSE SubSeq(e, i + 1, Len(e))

\* os.Getenv in a process started with environment env: of several entries
\* for one key the last one counts (os/exec keeps the last), "" when unset
Getenv(env, key) ==
    With([i \in 1..Len(env) |-> EntryKey(env[i])], LAMBDA keys :
    With(key, LAMBDA k :
        IF \E i \in 1..Len(env) : keys[i] = k
        THEN EntryValue(env[CHOOSE i \in 1..Len(env) :
                              /\ keys[i] = k
                              /\ \A j \in (i + 1)..Len(env) : keys[j] # k])
        ELSE ""))

\* fmt.Sprintf("CONTAINER_MOUNT_%d_SOURCE", i) and its siblings
MountVar(i, field) == "CONTAINER_MOUNT_" \o Itoa(i) \o "_" \o field

\* the loop "for i, mount := range config.Mounts" of RunContainer; i is the
\* 0-based index of the first mount of mounts
RECURSIVE MountEntries(_, _)
MountEntries(mounts, i) ==
    IF Len(mounts) = 0 THEN <<>>
    ELSE LET mount    == Head(mounts)
             readonly == IF mount.ReadOnly THEN "true" ELSE "false"
         IN  <<EnvEntry(MountVar(i, "SOURCE"), mount.Source),
               EnvEntry(MountVar(i, "DEST"), mount.Destination),
               EnvEntry(MountVar(i, "READONLY"), readonly)>>
             \o MountEntries(Tail(mounts), i + 1)

\* cmd.Env as RunContainer builds it from os.Environ() and the config
ChildEnv(environ, config) ==
    environ
    \o <<EnvEntry("CONTAINER_HOSTNAME", config.Hostname),
         EnvEntry("CONTAINER_ROOTFS", config.RootFS),
         EnvEntry("CONTAINER_NETWORK_CIDR", config.NetworkCIDR),
         EnvEntry("CONTAINER_HOST_IP", config.HostIP),
         EnvEntry("CONTAINER_CONTAINER_IP", config.ContainerIP)>>
    \o MountEntries(config.Mounts, 0)
    \o <<EnvEntry("CONTAINER_MOUNT_COUNT", Itoa(Len(config.Mounts)))>>

\* the loop "for i := 0; i < mountCount; i++" of configFromEnv, from index i
RECURSIVE MountsFromEnv(_, _, _)
MountsFromEnv(env, i, mountCount) ==
    IF i >= mountCount THEN <<>>
    ELSE <<MkMount(Getenv(env, MountVar(i, "SOURCE")),
                   Getenv(env, MountVar(i, "DEST")),
                   Getenv(env, MountVar(i, "READONLY")) = "true")>>
         \o MountsFromEnv(env, i + 1, mountCount)

\* the names that loop hands to os.Getenv, in the order of the calls
RECURSIVE MountReads(_, _)
MountReads(i, mountCount) ==
    IF i >= mountCount THEN <<>>
    ELSE <<MountVar(i, "SOURCE"), MountVar(i, "DEST"), MountVar(i, "READONLY")>>
         \o MountReads(i + 1, mountCount)

\* the names configFromEnv reads before the mounts
HeaderReads ==
    <<"CONTAINER_HOSTNAME", "CONTAINER_ROOTFS", "CONTAINER_NETWORK_CIDR",
      "CONTAINER_HOST_IP", "CONTAINER_CONTAINER_IP", "CONTAINER_MOUNT_COUNT">>

\* configFromEnv in a process whose environment is env: ok is "no error",
\* config the returned config (the zero config stands for nil), reads the
\* os.Getenv calls made, in order
configFromEnv(env) ==
    LET base == [ZeroConfig EXCEPT
                    !.Hostname    = Getenv(env, "CONTAINER_HOSTNAME"),
                    !.RootFS      = Getenv(env, "CONTAINER_ROOTFS"),
                    !.NetworkCIDR = Getenv(env, "CONTAINER_NETWORK_CIDR"),
                    !.HostIP      = Getenv(env, "CONTAINER_HOST_IP"),
                    !.ContainerIP = Getenv(env, "CONTAINER_CONTAINER_IP")]
    IN  With(Getenv(env, "CONTAINER_MOUNT_COUNT"), LAMBDA mountCountStr :
        With(parsePID(mountCountStr), LAMBDA mountCount :
            IF mountCountStr = ""
            THEN [ok |-> TRUE, config |-> base, reads |-> HeaderReads]
            ELSE IF ~mountCount.ok
            THEN [ok |-> FALSE, config |-> ZeroConfig, reads |-> HeaderReads]
            ELSE [ok     |-> TRUE,
                  config |-> [base EXCEPT
                                 !.Mounts = MountsFromEnv(env, 0, mountCount.val)],
                  reads  |-> HeaderReads \o MountReads(0, mountCount.val)]))

(***************************************************************************)
(* network.go: addresses, networks and iptables rules.                     *)
(* An IPv4 address is the tuple of its four octets.                        *)
(***************************************************************************)
\* one field of a dotted-decimal address: up to three digits, no leading
\* zero, at most 255
IsOctet(f) ==
    /\ AllDigits(f)
    /\ Len(f) <= 3
    /\ (Len(f) = 1 \/ Char(f, 1) # "0")
    /\ DigitsVal(f) <= 255

\* net.ParseIP for IPv4 text; ok is "not nil"
ParseIP(s) ==
    With(Split(s, "."), LAMBDA parts :
        IF Len(parts) = 4 /\ \A i \in 1..4 : IsOctet(parts[i])
        THEN [ok |-> TRUE, ip |-> [i \in 1..4 |-> DigitsVal(parts[i])]]
        ELSE [ok |-> FALSE, ip |-> <<0, 0, 0, 0>>])

\* the number of mask bits that fall into octet k of a prefix of n bits
OctetBits(n, k) ==
    LET b == n - 8 * (k - 1) IN IF b < 0 THEN 0 ELSE IF b > 8 THEN 8 ELSE b

\* IP.Mask(net.CIDRMask(n, 32))
MaskIP(ip, n) ==
    [k \in 1..4 |-> (ip[k] \div (2 ^ (8 - OctetBits(n, k)))) * (2 ^ (8 - OctetBits(n, k)))]

\* net.ParseCIDR: "a.b.c.d/n"; ip is the address as written, network the
\* masked address, bits the prefix length
ParseCIDR(s) ==
    With(IndexFrom(s, "/", 1), LAMBDA i :
    With(ParseIP(SubSeq(s, 1, i - 1)), LAMBDA addr :
    With(SubSeq(s, i + 1, Len(s)), LAMBDA mask :
        IF i # 0 /\ addr.ok /\ AllDigits(mask) /\ Len(mask) <= 3 /\ DigitsVal(mask) <= 32
        THEN [ok |-> TRUE, ip |-> addr.ip,
              network |-> MaskIP(addr.ip, DigitsVal(mask)), bits |-> DigitsVal(mask)]
        ELSE [ok |-> FALSE, ip |-> <<0, 0, 0, 0>>, network |-> <<0, 0, 0, 0>>,
              bits |-> 0])))

\* IP.String
IPString(ip) ==
    Itoa(ip[1]) \o "." \o Itoa(ip[2]) \o "." \o Itoa(ip[3]) \o "." \o Itoa(ip[4])

\* IPNet.String of the network ParseCIDR returns
NetworkString(cidr) == IPString(cidr.network) \o "/" \o Itoa(cidr.bits)

\* the address ip lies in the network of cidr (net.IPNet.Contains)
Contains(cidr, ip) == MaskIP(ip, cidr.bits) = cidr.network

\* the rule specifications setupNAT appends with "iptables [-t nat] -A", in
\* the order of the commands
NATRules(networkStr) ==
    <<"-t nat POSTROUTING -s " \o networkStr \o " -o eth0 -j MASQUERADE",
      "FORWARD -s " \o networkStr \o " -j ACCEPT",
      "FORWARD -d " \o networkStr \o " -j ACCEPT">>

\* CleanupNetwork deleting the masquerade rule alone
CleanupRulesNatOnly(networkStr) ==
    <<"-t nat POSTROUTING -s " \o networkStr \o " -o eth0 -j MASQUERADE">>

\* the rule specifications CleanupNetwork deletes with "iptables [-t nat] -D",
\* in the order of the commands
CleanupRules(networkStr) ==
    <<"-t nat POSTROUTING -s " \o networkStr \o " -o eth0 -j MASQUERADE",
      "FORWARD -s " \o networkStr \o " -j ACCEPT",
      "FORWARD -d " \o networkStr \o " -j ACCEPT">>

\* "iptables -A": the rule is appended to the rule list (a bag: appending a
\* rule that is already there adds a second instance)
IptablesAppend(rules, rule) == rules (+) SetToBag({rule})

\* "iptables -D": one instance of the rule is removed; the command fails and
\* changes nothing when there is none
IptablesDelete(rules, rule) ==
    IF BagIn(rule, rules) THEN rules (-) SetToBag({rule}) ELSE rules

\* rules after appending, then deleting, each rule of a sequence in order
RECURSIVE AppendAll(_, _)
AppendAll(rules, seq) ==
    With(rules, LAMBDA r : With(seq, LAMBDA q :
        IF Len(q) = 0 THEN r
        ELSE AppendAll(IptablesAppend(r, Head(q)), Tail(q))))

RECURSIVE DeleteAll(_, _)
DeleteAll(rules, seq) ==
    With(rules, LAMBDA r : With(seq, LAMBDA q :
        IF Len(q) = 0 THEN r
        ELSE DeleteAll(IptablesDelete(r, Head(q)), Tail(q))))

\* the rules of the commands of a sequence that the system does not refuse
\* to run (refused: the positions of the commands that fail)
RulesRun(seq, refused) ==
    LET F[i \in 0..Len(seq)] ==
            IF i = 0 THEN <<>>
            ELSE IF i \in refused THEN F[i - 1]
            ELSE Append(F[i - 1], seq[i])
    IN  F[Len(seq)]

\* CleanupNetwork: nothing when the CIDR does not parse, else the three
\* deletions, their errors ignored: a command that fails leaves its rule
CleanupNetwork(rules, config, refused) ==
    With(ParseCIDR(config.NetworkCIDR), LAMBDA network :
        IF ~network.ok THEN rules
        ELSE DeleteAll(rules, RulesRun(CleanupRules(NetworkString(network)), refused)))

(***************************************************************************)
(* filesystem.go and container.go: helpers of the parent.                  *)
(***************************************************************************)
\* the elements of a sequence
Range(seq) == {seq[i] : i \in 1..Len(seq)}

\* filepath.Join(a, b) for the paths used here: an empty element is
\* ignored, the others are joined by one "/" and cleaned of a leading "./"
RECURSIVE Clean(_)
Clean(path) == IF HasPrefix(path, "./") THEN Clean(SubSeq(path, 3, Len(path))) ELSE path

PathJoin(a, b) ==
    IF a = "" THEN Clean(b)
    ELSE IF b = "" THEN Clean(a)
    ELSE IF HasPrefix(b, "/") THEN Clean(a \o b)
    ELSE Clean(a \o "/" \o b)

\* requiredDirs of PrepareRootFS, in the order they are created
RequiredDirs(rootfsPath) ==
    <<PathJoin(rootfsPath, "proc"), PathJoin(rootfsPath, "dev"),
      PathJoin(rootfsPath, "dev/pts"), PathJoin(rootfsPath, "etc"),
      PathJoin(rootfsPath, "app"), PathJoin(rootfsPath, "tmp")>>

\* the loop over config.Mounts checking the sources alone
validateMountsSourceOnly(mounts, fs) ==
    IF \E i \in 1..Len(mounts) : validatePath(mounts[i].Source, fs) # ""
    THEN "invalid mount source path" ELSE ""

\* the loop over config.Mounts of validateConfig: "" or the first error
RECURSIVE validateMounts(_, _)
validateMounts(mounts, fs) ==
    IF Len(mounts) = 0 THEN ""
    ELSE IF validatePath(Head(mounts).Source, fs) # ""
    THEN "invalid mount source path: " \o validatePath(Head(mounts).Source, fs)
    ELSE IF Head(mounts).Destination = ""
    THEN "mount destination cannot be empty"
    ELSE validateMounts(Tail(mounts), fs)

\* validateConfig: "" (nil) or the error; fs is the set of existing paths
validateConfig(config, fs) ==
    IF validateCommand(config.Command) # "" THEN validateCommand(config.Command)
    ELSE IF validatePath(config.RootFS, fs) # ""
    THEN "invalid root filesystem path: " \o validatePath(config.RootFS, fs)
    ELSE validateMounts(config.Mounts, fs)

\* PrepareRootFS reporting success whatever it could make
PrepareRootFSAlwaysOk(fs, rootfsPath, made) ==
    [ok    |-> TRUE,
     files |-> fs \cup Range(SubSeq(RequiredDirs(rootfsPath), 1, made))]

\* PrepareRootFS creating the directories without looking for the rootfs
PrepareRootFSNoStat(fs, rootfsPath, made) ==
    [ok    |-> made = Len(RequiredDirs(rootfsPath)),
     files |-> fs \cup {rootfsPath} \cup Range(SubSeq(RequiredDirs(rootfsPath), 1, made))]

\* PrepareRootFS on the set fs of existing paths: the rootfs must exist; the
\* required directories are made in order (MkdirAll, which leaves a
\* directory that is there alone) until one cannot be made; made is the
\* number of directories the system lets it make
PrepareRootFS(fs, rootfsPath, made) ==
    IF rootfsPath \notin fs
    THEN [ok |-> FALSE, files |-> fs]
    ELSE [ok    |-> made = Len(RequiredDirs(rootfsPath)),
          files |-> fs \cup Range(SubSeq(RequiredDirs(rootfsPath), 1, made))]

(***************************************************************************)
(* cgroups.go.                                                             *)
(***************************************************************************)
cgroupBasePath == "/sys/fs/cgroup"

cgroupName == "namespace_test"

\* NewDefaultCgroupConfig
NewDefaultCgroupConfig ==
    [Name |-> cgroupName, MaxPids |-> "max", MemoryLimit |-> "",
     CPUQuota |-> "", CPUPeriod |-> "100000"]

\* the directory of the group
CgroupPath(cgroupConfig) == PathJoin(cgroupBasePath, cgroupConfig.Name)

\* the control files the kernel puts into a new group of a cgroup-v2
\* hierarchy with the pids, memory and cpu controllers enabled
AllControls == {"pids.max", "memory.max", "cpu.max", "cgroup.procs"}

(***************************************************************************)
(* The system calls a process makes and what they leave behind.  A run of  *)
(* setup code is a record st: err, the error so far ("" for none); files,  *)
(* the paths that exist; ops, the calls made in order, each with its       *)
(* result; mounts, the mount table of the process's mount namespace.       *)
(* refuse is the set of calls, named by <<op, dst>>, that the system       *)
(* refuses although they are well-formed.                                  *)
(***************************************************************************)
Op(op, src, dst, flags, ok) ==
    [op |-> op, src |-> src, dst |-> dst, flags |-> flags, ok |-> ok]

St0(fs) == [err |-> "", files |-> fs, ops |-> <<>>, mounts |-> <<>>]

Do(st, o) == [st EXCEPT !.ops = Append(@, o)]

Failed(st, o, msg) == [Do(st, o) EXCEPT !.err = msg]

Refused(refuse, op, dst) == <<op, dst>> \in refuse

\* setCgroupValue writing also when the file is not there
setCgroupValueNoStat(st, cgroupPath, filename, value, refuse) ==
    LET filePath == PathJoin(cgroupPath, filename)
    IN  IF st.err # "" THEN st
        ELSE IF Refused(refuse, "write", filePath) \/ filePath \notin st.files
        THEN Failed(st, Op("write", value, filePath, {}, FALSE),
                    "failed to write to " \o filePath)
        ELSE Do(st, Op("write", value, filePath, {}, TRUE))

\* setCgroupValue: a control file that does not exist is skipped without an
\* error; a write that fails is an error
setCgroupValue(st, cgroupPath, filename, value, refuse) ==
    LET filePath == PathJoin(cgroupPath, filename)
        s1       == Do(st, Op("stat", "", filePath, {}, filePath \in st.files))
    IN  IF st.err # "" THEN st
        ELSE IF filePath \notin st.files THEN s1
        ELSE IF Refused(refuse, "write", filePath)
        THEN Failed(s1, Op("write", value, filePath, {}, FALSE),
                    "failed to write to " \o filePath)
        ELSE Do(s1, Op("write", value, filePath, {}, TRUE))

\* lines 43-48 of SetupCgroups: the directory is made unless it is there;
\* controls are the control files the kernel puts into a new group
MakeCgroup(st, cgroupPath, controls, refuse) ==
    LET s1 == Do(st, Op("stat", "", cgroupPath, {}, cgroupPath \in st.files))
    IN  IF cgroupPath \in st.files THEN s1
        ELSE IF Refused(refuse, "mkdir", cgroupPath)
        THEN Failed(s1, Op("mkdir", "", cgroupPath, {}, FALSE),
                    "failed to create cgroup directory " \o cgroupPath)
        ELSE [Do(s1, Op("mkdir", "", cgroupPath, {}, TRUE)) EXCEPT
                 !.files = @ \cup {cgroupPath}
                             \cup {PathJoin(cgroupPath, f) : f \in controls}]

\* SetupCgroups writing cgroup.procs first
SetupCgroupsJoinFirst(st, controls, cgroupConfig, pid, refuse) ==
    LET cgroupPath == CgroupPath(cgroupConfig)
        s1 == MakeCgroup(st, cgroupPath, controls, refuse)
        s2 == setCgroupValue(s1, cgroupPath, "cgroup.procs", pid, refuse)
        s3 == setCgroupValue(s2, cgroupPath, "pids.max", cgroupConfig.MaxPids, refuse)
        s4 == IF cgroupConfig.MemoryLimit # ""
              THEN setCgroupValue(s3, cgroupPath, "memory.max",
                                  cgroupConfig.MemoryLimit, refuse)
              ELSE s3
    IN  IF cgroupConfig.CPUQuota # ""
        THEN setCgroupValue(s4, cgroupPath, "cpu.max",
                 cgroupConfig.CPUQuota \o " " \o cgroupConfig.CPUPeriod, refuse)
        ELSE s4

\* SetupCgroups by the process pid: each step is taken only when no earlier
\* one has failed
SetupCgroups(st, controls, cgroupConfig, pid, refuse) ==
    LET cgroupPath == CgroupPath(cgroupConfig)
        s1 == MakeCgroup(st, cgroupPath, controls, refuse)
        s2 == setCgroupValue(s1, cgroupPath, "pids.max", cgroupConfig.MaxPids, refuse)
        s3 == IF cgroupConfig.MemoryLimit # ""
              THEN setCgroupValue(s2, cgroupPath, "memory.max",
                                  cgroupConfig.MemoryLimit, refuse)
              ELSE s2
        s4 == IF cgroupConfig.CPUQuota # ""
              THEN setCgroupValue(s3, cgroupPath, "cpu.max",
                       cgroupConfig.CPUQuota \o " " \o cgroupConfig.CPUPeriod, refuse)
              ELSE s3
    IN  setCgroupValue(s4, cgroupPath, "cgroup.procs", pid, refuse)

\* os.Getpid in the child, the first process of its PID namespace
ChildPid == "1"

\* the calls of SetupCgroups the system may refuse
CgroupRefusals(cgroupConfig) ==
    {{}} \cup {{<<"mkdir", CgroupPath(cgroupConfig)>>}}
         \cup {{<<"write", PathJoin(CgroupPath(cgroupConfig), f)>>} : f \in AllControls}

(***************************************************************************)
(* filesystem.go: the child's file system.                                 *)
(***************************************************************************)
\* a mount in the table
Mounted(point, source, ro) == [point |-> point, source |-> source, ro |-> ro]

\* the mount flags createBindMount passes to the first mount call
BindFlags(mount) ==
    {"MS_BIND"} \cup (IF mount.ReadOnly THEN {"MS_RDONLY"} ELSE {})

\* a remount with flags of the last mount made: read-only with MS_RDONLY
Remounted(mounts, flags) ==
    [mounts EXCEPT ![Len(mounts)].ro = ("MS_RDONLY" \in flags)]

\* the directories on the way to a path, from the top down and the path
\* itself last ("." and "/" are always there)
PathPrefixes(path) ==
    With(path, LAMBDA p :
        LET F[i \in 0..Len(p)] ==
                IF i = 0 THEN <<>>
                ELSE IF /\ Char(p, i) # "/"
                        /\ (i = Len(p) \/ Char(p, i + 1) = "/")
                        /\ SubSeq(p, 1, i) # "."
                THEN Append(F[i - 1], SubSeq(p, 1, i))
                ELSE F[i - 1]
        IN  F[Len(p)])

\* the directories on the way to filepath.Join(rootFS, destination): those
\* down to the rootfs as the rootfs path spells them, then those below it
MountPointChain(rootFS, destination) ==
    With(PathPrefixes(destination), LAMBDA below :
        PathPrefixes(rootFS) \o [i \in DOMAIN below |-> PathJoin(rootFS, below[i])])

\* os.MkdirAll of the last directory of a chain: it makes the directory and
\* every directory above it that is missing, and none above one that exists
\* (a refused MkdirAll is refused at the first directory it would make, and
\* makes none)
MkdirAll(files, chain) ==
    files \cup {chain[i] : i \in {k \in DOMAIN chain :
                                    \A j \in k..Len(chain) : chain[j] \notin files}}

\* createBindMount without the remount
createBindMountOnce(st, mount, rootFS, refuse) ==
    With(st, LAMBDA s :
        LET mountPoint == PathJoin(rootFS, mount.Destination)
            s1 == Do(s, Op("stat", "", mount.Source, {}, mount.Source \in s.files))
            s2 == [Do(s1, Op("mkdir", "", mountPoint, {}, TRUE)) EXCEPT
                      !.files = MkdirAll(@, MountPointChain(rootFS, mount.Destination))
                                    \cup {mountPoint}]
        IN  IF s.err # "" THEN s
            ELSE IF mount.Source \notin s.files
            THEN [s1 EXCEPT !.err = "source path does not exist: " \o mount.Source]
            ELSE IF Refused(refuse, "mkdir", mountPoint)
            THEN Failed(s1, Op("mkdir", "", mountPoint, {}, FALSE),
                        "failed to create mount point " \o mountPoint)
            ELSE IF Refused(refuse, "mount", mountPoint)
            THEN Failed(s2, Op("mount", mount.Source, mountPoint, BindFlags(mount), FALSE),
                        "failed to bind mount")
            ELSE [Do(s2, Op("mount", mount.Source, mountPoint, BindFlags(mount), TRUE)) EXCEPT
                     !.mounts = Append(@, Mounted(mountPoint, mount.Source, FALSE))])

\* createBindMount: the source must exist, the mount point is made under
\* the rootfs with the directories above it that are missing (the rootfs
\* too), the source is bind-mounted there (the kernel takes no
\* MS_RDONLY on a new bind mount) and a read-only mount is remounted
createBindMount(st, mount, rootFS, refuse) ==
    With(st, LAMBDA s :
        LET mountPoint == PathJoin(rootFS, mount.Destination)
            s1 == Do(s, Op("stat", "", mount.Source, {}, mount.Source \in s.files))
            s2 == [Do(s1, Op("mkdir", "", mountPoint, {}, TRUE)) EXCEPT
                      !.files = MkdirAll(@, MountPointChain(rootFS, mount.Destination))
                                    \cup {mountPoint}]
            s3 == [Do(s2, Op("mount", mount.Source, mountPoint, BindFlags(mount), TRUE)) EXCEPT
                      !.mounts = Append(@, Mounted(mountPoint, mount.Source, FALSE))]
            remountFlags == BindFlags(mount) \cup {"MS_REMOUNT"}
        IN  IF s.err # "" THEN s
            ELSE IF mount.Source \notin s.files
            THEN [s1 EXCEPT !.err = "source path does not exist: " \o mount.Source]
            ELSE IF Refused(refuse, "mkdir", mountPoint)
            THEN Failed(s1, Op("mkdir", "", mountPoint, {}, FALSE),
                        "failed to create mount point " \o mountPoint)
            ELSE IF Refused(refuse, "mount", mountPoint)
            THEN Failed(s2, Op("mount", mount.Source, mountPoint, BindFlags(mount), FALSE),
                        "failed to bind mount")
            ELSE IF ~mount.ReadOnly THEN s3
            ELSE IF Refused(refuse, "remount", mountPoint)
            THEN Failed(s3, Op("remount", "", mountPoint, remountFlags, FALSE),
                        "failed to remount as read-only")
            ELSE [Do(s3, Op("remount", "", mountPoint, remountFlags, TRUE)) EXCEPT
                     !.mounts = Remounted(@, remountFlags)])

\* setupBindMounts: the mounts in the order of the config, up to the first
\* that fails
RECURSIVE setupBindMounts(_, _, _, _)
setupBindMounts(st, mounts, rootFS, refuse) ==
    With(st, LAMBDA s : With(mounts, LAMBDA ms :
        IF Len(ms) = 0 \/ s.err # "" THEN s
        ELSE setupBindMounts(createBindMount(s, Head(ms), rootFS, refuse),
                             Tail(ms), rootFS, refuse)))

\* one system call of SetupFilesystem that leaves nothing in the model: it
\* fails when the system refuses it or when it cannot work (~can)
Call(st, o, can, refuse, msg) ==
    With(st, LAMBDA s :
        IF s.err # "" THEN s
        ELSE IF ~can \/ Refused(refuse, o.op, o.dst)
        THEN Failed(s, [o EXCEPT !.ok = FALSE], msg)
        ELSE Do(s, o))

\* copyResolvConf after the chroot to rootFS: /etc is made and
\* /etc/resolv.conf written
copyResolvConf(st, rootFS, refuse) ==
    With(Call(st, Op("mkdir", "", "/etc", {}, TRUE), TRUE, refuse,
              "failed to create /etc directory"), LAMBDA s1 :
    With(IF s1.err = "" THEN [s1 EXCEPT !.files = @ \cup {PathJoin(rootFS, "etc")}]
         ELSE s1, LAMBDA s2 :
    With(Call(s2, Op("write", "nameserver", "/etc/resolv.conf", {}, TRUE), TRUE,
              refuse, "failed to write resolv.conf"), LAMBDA s3 :
        IF s3.err = ""
        THEN [s3 EXCEPT !.files = @ \cup {PathJoin(rootFS, "etc/resolv.conf")}]
        ELSE s3)))

\* syscall.Mount of a new file system of a type on a directory of the root:
\* the directory must exist
MountFs(st, type, point, rootFS, refuse, msg) ==
    With(st, LAMBDA s :
    With(Call(s, Op("mount", type, point, {}, TRUE),
              PathJoin(rootFS, point) \in s.files, refuse, msg), LAMBDA s1 :
        IF s1.err = ""
        THEN [s1 EXCEPT !.mounts = Append(@, Mounted(point, type, FALSE))]
        ELSE s1))

\* SetupFilesystem with the chroot before the bind mounts
SetupFilesystemChrootFirst(st, config, refuse) ==
    LET s1 == Call(st, Op("chroot", "", config.RootFS, {}, TRUE),
                   config.RootFS \in st.files, refuse, "failed to chroot")
        s2 == setupBindMounts(s1, config.Mounts, config.RootFS, refuse)
        s3 == Call(s2, Op("sethostname", config.Hostname, "", {}, TRUE), TRUE, refuse,
                   "failed to set hostname")
        s4 == Call(s3, Op("chdir", "", "/", {}, TRUE), TRUE, refuse,
                   "failed to change directory to /")
        s5 == copyResolvConf(s4, config.RootFS, refuse)
        s6 == MountFs(s5, "proc", "proc", config.RootFS, refuse, "failed to mount proc")
    IN  MountFs(s6, "devpts", "/dev/pts", config.RootFS, refuse, "failed to mount devpts")

\* SetupFilesystem: bind mounts, hostname, chroot, chdir, resolv.conf, proc,
\* devpts; each step is taken only when no earlier one has failed
SetupFilesystem(st, config, refuse) ==
    LET s1 == setupBindMounts(st, config.Mounts, config.RootFS, refuse)
        s2 == Call(s1, Op("sethostname", config.Hostname, "", {}, TRUE), TRUE, refuse,
                   "failed to set hostname")
        s3 == With(s2, LAMBDA s : Call(s, Op("chroot", "", config.RootFS, {}, TRUE),
                                       config.RootFS \in s.files, refuse, "failed to chroot"))
        s4 == Call(s3, Op("chdir", "", "/", {}, TRUE), TRUE, refuse,
                   "failed to change directory to /")
        s5 == copyResolvConf(s4, config.RootFS, refuse)
        s6 == MountFs(s5, "proc", "proc", config.RootFS, refuse, "failed to mount proc")
    IN  MountFs(s6, "devpts", "/dev/pts", config.RootFS, refuse, "failed to mount devpts")

\* the mount table without the last mount on point
RECURSIVE Unmounted(_, _)
Unmounted(mounts, point) ==
    IF Len(mounts) = 0 THEN mounts
    ELSE IF mounts[Len(mounts)].point = point THEN SubSeq(mounts, 1, Len(mounts) - 1)
    ELSE Append(Unmounted(SubSeq(mounts, 1, Len(mounts) - 1), point), mounts[Len(mounts)])

\* syscall.Unmount(point): fails when nothing is mounted there or when the
\* system refuses (the mount is busy); lastErr is kept in st.err
Unmount(st, point, refuse) ==
    IF (\E i \in 1..Len(st.mounts) : st.mounts[i].point = point)
       /\ ~Refused(refuse, "unmount", point)
    THEN [Do(st, Op("unmount", "", point, {}, TRUE)) EXCEPT
             !.mounts = Unmounted(@, point)]
    ELSE Failed(st, Op("unmount", "", point, {}, FALSE), "unmount " \o point)

\* CleanupFilesystem stopping at the first unmount that fails
CleanupFilesystemStopping(st, refuse) ==
    LET s1 == Unmount([st EXCEPT !.err = ""], "/dev/pts", refuse)
    IN  IF s1.err # "" THEN s1 ELSE Unmount(s1, "proc", refuse)

\* CleanupFilesystem: /dev/pts, then proc, whatever the first returned; the
\* error returned is the last one
CleanupFilesystem(st, refuse) ==
    Unmount(Unmount([st EXCEPT !.err = ""], "/dev/pts", refuse), "proc", refuse)

\* the calls of SetupFilesystem and CleanupFilesystem the system may refuse
FilesystemRefusals(config) ==
    {{}} \cup {{<<op, PathJoin(config.RootFS, config.Mounts[i].Destination)>>} :
                 op \in {"mkdir", "mount", "remount"}, i \in 1..Len(config.Mounts)}
         \cup {{<<"sethostname", "">>}, {<<"chroot", config.RootFS>>},
                {<<"chdir", "/">>}, {<<"mkdir", "/etc">>},
                {<<"write", "/etc/resolv.conf">>},
                {<<"mount", "proc">>}, {<<"mount", "/dev/pts">>}}

CleanupRefusals ==
    SUBSET {<<"unmount", "/dev/pts">>, <<"unmount", "proc">>}

\* ParseMemorySize taking the upper-case suffixes alone
ParseMemorySizeUpperOnly(size) ==
    IF size = "" THEN [value |-> "", err |-> ""]
    ELSE LET last == SubSeq(size, Len(size), Len(size))
             body == SubSeq(size, 1, Len(size) - 1)
         IN  IF last = "K" THEN [value |-> body \o "000", err |-> ""]
             ELSE IF last = "M" THEN [value |-> body \o "000000", err |-> ""]
             ELSE IF last = "G" THEN [value |-> body \o "000000000", err |-> ""]
             ELSE [value |-> size, err |-> ""]

\* ParseMemorySize: the string returned and the error, "" for nil
ParseMemorySize(size) ==
    IF size = "" THEN [value |-> "", err |-> ""]
    ELSE LET last == SubSeq(size, Len(size), Len(size))
             body == SubSeq(size, 1, Len(size) - 1)
         IN  IF last \in {"K", "k"} THEN [value |-> body \o "000", err |-> ""]
             ELSE IF last \in {"M", "m"} THEN [value |-> body \o "000000", err |-> ""]
             ELSE IF last \in {"G", "g"} THEN [value |-> body \o "000000000", err |-> ""]
             ELSE [value |-> size, err |-> ""]

\* the exit status of a process whose handler (handleRun, handleChild)
\* got the error err from RunContainer or RunChildProcess: os.Exit(1) for
\* any error, a plain return from main otherwise
\* os.Exit with status 1 whatever the handler got
ExitStatusOne(err, code) == 1

\* os.Exit answering an error with status 0
ExitStatusZero(err, code) == 0

\* the exit status of a process whose handler got err: os.Exit(code) on an
\* error, 0 at the end of main otherwise
ExitStatus(err, code) == IF err THEN 1 ELSE 0

\* cmd.Process.Kill leaving the child alone
KillNothing(cs) == cs

\* cmd.Process.Kill: the state of the child after the signal; a child that
\* has ended already stays as it is
Kill(cs) == IF cs = "running" THEN "killed" ELSE cs

\* netns.Set that never gets the thread out of the container's namespace
netnsSetNeverBack(target, current, ok) ==
    IF ok /\ current # "child" THEN target ELSE current

\* netns.Set(target): the namespace the calling thread is in after the
\* call; ok is whether setns succeeded
netnsSet(target, current, ok) == IF ok THEN target ELSE current

(***************************************************************************)
(* State.                                                                  *)
(***************************************************************************)
VARIABLES
    \* ParseFlags / parseMount applied to an input
    pArgs,      \* the argument list
    pGetwd,     \* what os.Getwd returns
    pMountStr,  \* the mount string
    pResult,    \* result of ParseFlags
    pMount,     \* result of parseMount
    pPc,        \* "start" | "done"
    \* the environment bridge applied to an input
    eConfig,    \* the parent's config
    eEnviron,   \* os.Environ() of the parent
    eEnv,       \* the environment of the child
    eResult,    \* result of configFromEnv in the child
    ePc,        \* "parent" | "child" | "done"
    \* the host a `run` is started on (inputs; they never change)
    euid,       \* effective user id
    osArgs,     \* os.Args[1:]
    getwd,      \* what os.Getwd returns
    files0,     \* paths existing at the start
    iptables0,  \* iptables rules installed at the start (a bag)
    hostLinks0, \* links of the host network namespace at the start
    \* host-visible state
    files,      \* existing paths
    iptables,   \* installed iptables rules (a bag)
    hostLinks,  \* names of the links in the host network namespace
    childLinks, \* names of the links in the child's network namespace
    netcfg,     \* link and route facts: <<namespace, device, fact>>
    \* the parent process
    ppc,        \* position of the parent
    plog,       \* the calls the parent has made, in order
    pExit,      \* exit status of the parent, -1 while it runs
    config,     \* the config ParseFlags returned
    threadNs,   \* network namespace of the parent's locked thread
    nsFds,      \* namespace handles the parent holds open
    runErr,     \* whether cmd.Wait returned an error
    \* the child process
    cState,     \* "none" | "running" | "exited" | "killed"
    cpc,        \* position of the child
    cExit,      \* exit status of the child, -1 while there is none
    cEnv,       \* environment of the child
    cArgs,      \* os.Args[2:] of the child: the user command
    cConfig,    \* the config the child reconstructed
    cErr,       \* whether cmd.Run returned an error in the child
    userExit,   \* exit code of the user command, -1 while there is none
    \* PrepareRootFS called repeatedly on one file system
    rRootfs,    \* the rootfs path
    rFiles0,    \* the paths that exist before the first call
    rFiles,     \* the paths that exist
    rCalls,     \* one record for each call made: its result, the mkdirs allowed
    \* ParseMemorySize applied to an input
    mSize,      \* the size string
    mResult,    \* what ParseMemorySize returned
    mPc,        \* "idle" | "start" | "done"
    \* SetupCgroups applied to an input
    gConfig,    \* the CgroupConfig
    gControls,  \* the control files the kernel puts into a new group
    gFiles,     \* the paths that exist before the call
    gRefuse,    \* the calls the system refuses
    gResult,    \* the run of SetupCgroups
    gPc,        \* "idle" | "start" | "done"
    \* createBindMount applied to an input
    bMount,     \* the Mount
    bRootfs,    \* the rootfs path
    bFiles,     \* the paths that exist before the call
    bRefuse,    \* the calls the system refuses
    bResult,    \* the run of createBindMount
    bPc,        \* "idle" | "start" | "done"
    \* the child role on its own: handleChild and RunChildProcess
    kEnv,       \* the environment of the process
    kArgs,      \* os.Args[2:], the user command
    kFiles0,    \* the paths that exist at the start
    kControls,  \* the control files the kernel puts into a new group
    kPc,        \* position in RunChildProcess
    kConfig,    \* the config configFromEnv returned
    kSt,        \* the run so far: system calls made, files, mount table
    kCalls,     \* the calls RunChildProcess has made, each with its error
    kRun,       \* what cmd.Run returned, "" for nil
    kRet,       \* what RunChildProcess returned, "" for nil
    kExit       \* exit status of the process, -1 while it runs

parseVars == <<pArgs, pGetwd, pMountStr, pResult, pMount, pPc>>
envVars == <<eConfig, eEnviron, eEnv, eResult, ePc>>
inputVars == <<euid, osArgs, getwd, files0, iptables0, hostLinks0>>
hostVars == <<files, iptables, hostLinks, childLinks, netcfg>>
parentVars == <<ppc, plog, pExit, config, threadNs, nsFds, runErr>>
childVars == <<cState, cpc, cExit, cEnv, cArgs, cConfig, cErr, userExit>>
lifeVars == <<inputVars, hostVars, parentVars, childVars>>
prepVars == <<rRootfs, rFiles0, rFiles, rCalls>>
memVars == <<mSize, mResult, mPc>>
cgVars == <<gConfig, gControls, gFiles, gRefuse, gResult, gPc>>
bindVars == <<bMount, bRootfs, bFiles, bRefuse, bResult, bPc>>
kidVars == <<kEnv, kArgs, kFiles0, kControls, kPc, kConfig, kSt, kCalls, kRun, kRet, kExit>>
callVars == <<prepVars, memVars, cgVars, bindVars, kidVars>>

vars == <<parseVars, envVars, lifeVars, callVars>>

(***************************************************************************)
(* ParseFlags and parseMount as operations on bounded inputs.              *)
(***************************************************************************)
\* tokens of the command lines tried
Tokens ==
    {"--hostname", "myhost", "--hostname=h1", "-network=10.0.0.0/24",
     "--mount", "/src:/dst:ro", "--mount=/a:/b", "--mount=bad",
     "-", "--", "--bogus", "-h", "/bin/sh", "-c"}

RECURSIVE SeqsUpTo(_, _)
SeqsUpTo(S, n) ==
    IF n = 0 THEN {<<>>}
    ELSE LET shorter == SeqsUpTo(S, n - 1)
         IN  shorter \cup {Append(q, x) : q \in {r \in shorter : Len(r) = n - 1}, x \in S}

ArgLists == SeqsUpTo(Tokens, MaxArgs)

GetwdResults == {[ok |-> TRUE, dir |-> "/home/user"], [ok |-> FALSE, dir |-> ""]}

\* fields of the mount strings tried
MountFields == {"", "/a", "/b", "ro", "rw"}

MountStrs ==
    {Join(f, ":") : f \in {q \in SeqsUpTo(MountFields, MaxFields) : Len(q) >= 1}}

ParseIdle ==
    /\ pArgs = <<>>
    /\ pGetwd = [ok |-> FALSE, dir |-> ""]
    /\ pMountStr = ""
    /\ pResult = PFErr("")
    /\ pMount = [ok |-> FALSE, mount |-> MkMount("", "", FALSE)]
    /\ pPc = "idle"

EnvIdle ==
    /\ eConfig = ZeroConfig
    /\ eEnviron = <<>>
    /\ eEnv = <<>>
    /\ eResult = [ok |-> FALSE, config |-> ZeroConfig, reads |-> <<>>]
    /\ ePc = "idle"

LifeIdle ==
    /\ euid = 0 /\ osArgs = <<>> /\ getwd = [ok |-> FALSE, dir |-> ""]
    /\ files0 = {} /\ iptables0 = EmptyBag /\ hostLinks0 = {}
    /\ files = {} /\ iptables = EmptyBag /\ hostLinks = {} /\ childLinks = {}
    /\ netcfg = {}
    /\ ppc = "idle" /\ plog = <<>> /\ pExit = -1 /\ config = ZeroConfig
    /\ threadNs = "host" /\ nsFds = {} /\ runErr = FALSE
    /\ cState = "none" /\ cpc = "none" /\ cExit = -1 /\ cEnv = <<>>
    /\ cArgs = <<>> /\ cConfig = ZeroConfig /\ cErr = FALSE /\ userExit = -1

PrepIdle ==
    /\ rRootfs = "" /\ rFiles0 = {} /\ rFiles = {} /\ rCalls = <<>>

MemIdle ==
    /\ mSize = "" /\ mResult = [value |-> "", err |-> ""] /\ mPc = "idle"

CgIdle ==
    /\ gConfig = NewDefaultCgroupConfig /\ gControls = {} /\ gFiles = {}
    /\ gRefuse = {} /\ gResult = St0({}) /\ gPc = "idle"

BindIdle ==
    /\ bMount = MkMount("", "", FALSE) /\ bRootfs = "" /\ bFiles = {}
    /\ bRefuse = {} /\ bResult = St0({}) /\ bPc = "idle"

KidIdle ==
    /\ kEnv = <<>> /\ kArgs = <<>> /\ kFiles0 = {} /\ kControls = {}
    /\ kPc = "idle" /\ kConfig = ZeroConfig /\ kSt = St0({}) /\ kCalls = <<>>
    /\ kRun = "" /\ kRet = "" /\ kExit = -1

CallIdle ==
    /\ PrepIdle
    /\ MemIdle
    /\ CgIdle
    /\ BindIdle
    /\ KidIdle

InitParse ==
    /\ pArgs \in ArgLists
    /\ pGetwd \in GetwdResults
    /\ pMountStr = ""
    /\ pResult = PFErr("")
    /\ pMount = [ok |-> FALSE, mount |-> MkMount("", "", FALSE)]
    /\ pPc = "start"
    /\ EnvIdle
    /\ LifeIdle
    /\ CallIdle

DoParseFlags ==
    /\ pPc = "start"
    /\ pResult' = ParseFlags(pArgs, pGetwd)
    /\ pPc' = "done"
    /\ UNCHANGED <<pArgs, pGetwd, pMountStr, pMount>>
    /\ UNCHANGED <<envVars, lifeVars, callVars>>

NextParse == DoParseFlags

SpecParse == InitParse /\ [][NextParse]_vars

InitMount ==
    /\ pArgs = <<>>
    /\ pGetwd = [ok |-> FALSE, dir |-> ""]
    /\ pMountStr \in MountStrs
    /\ pResult = PFErr("")
    /\ pMount = [ok |-> FALSE, mount |-> MkMount("", "", FALSE)]
    /\ pPc = "start"
    /\ EnvIdle
    /\ LifeIdle
    /\ CallIdle

DoParseMount ==
    /\ pPc = "start"
    /\ pMount' = parseMount(pMountStr)
    /\ pPc' = "done"
    /\ UNCHANGED <<pArgs, pGetwd, pMountStr, pResult>>
    /\ UNCHANGED <<envVars, lifeVars, callVars>>

NextMount == DoParseMount

SpecMount == InitMount /\ [][NextMount]_vars

(***************************************************************************)
(* The environment bridge as operations on bounded inputs: the parent      *)
(* writes a config into the child's environment and the child reads it     *)
(* back; or the child role is entered with an environment of its own.      *)
(***************************************************************************)
EnvMounts ==
    {MkMount(src, dst, ro) : src \in {"/src", "/x=y"}, dst \in {"/app", ""},
                             ro \in BOOLEAN}

EnvConfigs ==
    {[NewDefaultConfig EXCEPT !.Hostname = h, !.Mounts = ms, !.Command = <<"/bin/true">>] :
        h \in {"container", ""}, ms \in SeqsUpTo(EnvMounts, MaxMounts)}

\* what the parent itself may have inherited
Environs ==
    {<<>>, <<"PATH=/bin">>,
     <<"CONTAINER_MOUNT_COUNT=7", "CONTAINER_MOUNT_0_SOURCE=/stale",
       "CONTAINER_HOSTNAME=stale">>}

CountStrs == {"", "0", "1", "2", "3", "-1", "-0", "+2", "abc", "1x", "02"}

\* environments a child role may be entered with
RawEnvs ==
    {MountEntries(ms, 0) \o c :
        ms \in SeqsUpTo({MkMount("/src", "/app", FALSE), MkMount("/s2", "", TRUE)},
                        MaxMounts),
        c \in {<<>>} \cup {<<EnvEntry("CONTAINER_MOUNT_COUNT", n)>> : n \in CountStrs}}

InitEnv ==
    /\ ParseIdle
    /\ LifeIdle
    /\ CallIdle
    /\ eResult = [ok |-> FALSE, config |-> ZeroConfig, reads |-> <<>>]
    /\ \/ /\ ePc = "parent"
          /\ eConfig \in EnvConfigs
          /\ eEnviron \in Environs
          /\ eEnv = <<>>
       \/ /\ ePc = "child"
          /\ eConfig = ZeroConfig
          /\ eEnviron = <<>>
          /\ eEnv \in RawEnvs

\* RunContainer, lines 36-57: the child is started with the config in its
\* environment
WriteEnv ==
    /\ ePc = "parent"
    /\ eEnv' = ChildEnv(eEnviron, eConfig)
    /\ ePc' = "child"
    /\ UNCHANGED <<eConfig, eEnviron, eResult>>
    /\ UNCHANGED <<parseVars, lifeVars, callVars>>

\* RunChildProcess, line 97: the child reads its config
ReadEnv ==
    /\ ePc = "child"
    /\ eResult' = configFromEnv(eEnv)
    /\ ePc' = "done"
    /\ UNCHANGED <<eConfig, eEnviron, eEnv>>
    /\ UNCHANGED <<parseVars, lifeVars, callVars>>

NextEnv == WriteEnv \/ ReadEnv

SpecEnv == InitEnv /\ [][NextEnv]_vars

(***************************************************************************)
(* PrepareRootFS called again and again on one file system.                *)
(***************************************************************************)
\* the rootfs paths tried
RootfsPaths == {"./namespace_fs", "/missing", ""}

\* the file systems tried: the rootfs with any of its required directories
\* (dev/pts only under dev)
PreparedSets ==
    {d \in SUBSET Range(RequiredDirs("./namespace_fs")) :
        PathJoin("./namespace_fs", "dev/pts") \in d
            => PathJoin("./namespace_fs", "dev") \in d}

InitPrepare ==
    /\ rRootfs \in RootfsPaths
    /\ rFiles0 \in {{"./namespace_fs", "/home/user"} \cup d : d \in PreparedSets}
    /\ rFiles = rFiles0
    /\ rCalls = <<>>
    /\ MemIdle
    /\ CgIdle
    /\ BindIdle
    /\ KidIdle
    /\ ParseIdle
    /\ EnvIdle
    /\ LifeIdle

CallPrepareRootFS ==
    /\ Len(rCalls) < MaxCalls
    /\ \E made \in 0..Len(RequiredDirs(rRootfs)) :
          LET r == PrepareRootFS(rFiles, rRootfs, made)
          IN  /\ rFiles' = r.files
              /\ rCalls' = Append(rCalls, [ok |-> r.ok, made |-> made])
    /\ UNCHANGED <<rRootfs, rFiles0, memVars, cgVars, bindVars, kidVars>>
    /\ UNCHANGED <<parseVars, envVars, lifeVars>>

NextPrepare == CallPrepareRootFS

SpecPrepare == InitPrepare /\ [][NextPrepare]_vars

(***************************************************************************)
(* ParseMemorySize as an operation on bounded inputs.                      *)
(***************************************************************************)
\* the size strings tried: a body followed by an ending
SizeBodies == {"", "1", "2", "3", "10", "500", "1.5", "K", "x", "-4", "10 "}

SizeEndings == {"", "K", "k", "M", "m", "G", "g", "B", "T", "b", "KB", "Ki", "0"}

MemorySizes == {b \o e : b \in SizeBodies, e \in SizeEndings}

InitMemory ==
    /\ mSize \in MemorySizes
    /\ mResult = [value |-> "", err |-> ""]
    /\ mPc = "start"
    /\ PrepIdle
    /\ CgIdle
    /\ BindIdle
    /\ KidIdle
    /\ ParseIdle
    /\ EnvIdle
    /\ LifeIdle

DoParseMemorySize ==
    /\ mPc = "start"
    /\ mResult' = ParseMemorySize(mSize)
    /\ mPc' = "done"
    /\ UNCHANGED <<mSize, prepVars, cgVars, bindVars, kidVars>>
    /\ UNCHANGED <<parseVars, envVars, lifeVars>>

NextMemory == DoParseMemorySize

SpecMemory == InitMemory /\ [][NextMemory]_vars

(***************************************************************************)
(* SetupCgroups as an operation on bounded inputs.                         *)
(***************************************************************************)
\* the group configs tried: the default with and without limits
CgroupConfigs ==
    {[NewDefaultCgroupConfig EXCEPT !.MemoryLimit = m, !.CPUQuota = q] :
        m \in {"", "1000000"}, q \in {"", "50000"}}

\* the hosts tried: without the group, with the group and all its control
\* files, with a directory of the group's name and nothing in it
CgroupHosts(cgroupConfig) ==
    {{cgroupBasePath},
     {cgroupBasePath, CgroupPath(cgroupConfig)}
         \cup {PathJoin(CgroupPath(cgroupConfig), f) : f \in AllControls},
     {cgroupBasePath, CgroupPath(cgroupConfig)}}

InitCgroups ==
    /\ gConfig \in CgroupConfigs
    /\ gControls \in SUBSET AllControls
    /\ gFiles \in CgroupHosts(gConfig)
    /\ gRefuse \in CgroupRefusals(gConfig)
    /\ gResult = St0({})
    /\ gPc = "start"
    /\ PrepIdle
    /\ MemIdle
    /\ BindIdle
    /\ KidIdle
    /\ ParseIdle
    /\ EnvIdle
    /\ LifeIdle

DoSetupCgroups ==
    /\ gPc = "start"
    /\ gResult' = SetupCgroups(St0(gFiles), gControls, gConfig, ChildPid, gRefuse)
    /\ gPc' = "done"
    /\ UNCHANGED <<gConfig, gControls, gFiles, gRefuse>>
    /\ UNCHANGED <<prepVars, memVars, bindVars, kidVars>>
    /\ UNCHANGED <<parseVars, envVars, lifeVars>>

NextCgroups == DoSetupCgroups

SpecCgroups == InitCgroups /\ [][NextCgroups]_vars

(***************************************************************************)
(* createBindMount as an operation on bounded inputs.                      *)
(***************************************************************************)
BindMounts ==
    {MkMount(src, dst, ro) : src \in {"/data", "/home/user", "/nosuch", ""},
                             dst \in {"/data", "/mnt/x", "app"},
                             ro \in BOOLEAN}

BindRefusals(mount, rootFS) ==
    {{}} \cup {{<<op, PathJoin(rootFS, mount.Destination)>>} :
                 op \in {"mkdir", "mount", "remount"}}

InitBind ==
    /\ bMount \in BindMounts
    /\ bRootfs \in {"./namespace_fs", "/srv/rootfs"}
    /\ bFiles = {"./namespace_fs", "/srv/rootfs", "/home/user", "/data"}
    /\ bRefuse \in BindRefusals(bMount, bRootfs)
    /\ bResult = St0({})
    /\ bPc = "start"
    /\ PrepIdle
    /\ MemIdle
    /\ CgIdle
    /\ KidIdle
    /\ ParseIdle
    /\ EnvIdle
    /\ LifeIdle

DoCreateBindMount ==
    /\ bPc = "start"
    /\ bResult' = createBindMount(St0(bFiles), bMount, bRootfs, bRefuse)
    /\ bPc' = "done"
    /\ UNCHANGED <<bMount, bRootfs, bFiles, bRefuse>>
    /\ UNCHANGED <<prepVars, memVars, cgVars, kidVars>>
    /\ UNCHANGED <<parseVars, envVars, lifeVars>>

NextBind == DoCreateBindMount

SpecBind == InitBind /\ [][NextBind]_vars

(***************************************************************************)
(* The child role on its own: handleChild and RunChildProcess, one action  *)
(* for each call RunChildProcess makes.                                    *)
(***************************************************************************)
\* os.Environ() of the parent
HostEnviron == <<"PATH=/bin">>

\* the paths of a host before any run
BaseFiles == {"./namespace_fs", "/home/user", "/data"}

\* the mounts a child may be given
KidMounts ==
    {MkMount("/data", "/data", TRUE), MkMount("/home/user", "/app", FALSE),
     MkMount("/nosuch", "/x", FALSE)}

\* the configs a parent may have passed on
KidConfigs ==
    {[NewDefaultConfig EXCEPT !.RootFS = r, !.Mounts = ms, !.Command = <<"/bin/true">>] :
        r \in {"./namespace_fs", "/missing"}, ms \in SeqsUpTo(KidMounts, MaxMounts)}

\* the environments tried: those a parent makes, an environment without any
\* of the variables, and one with a mount count that is no number
KidEnvs ==
    {ChildEnv(HostEnviron, c) : c \in KidConfigs}
    \cup {HostEnviron,
           ChildEnv(HostEnviron, NewDefaultConfig) \o <<"CONTAINER_MOUNT_COUNT=abc">>}

\* a prepared rootfs
PreparedFiles == BaseFiles \cup Range(RequiredDirs("./namespace_fs")) \cup {cgroupBasePath}

InitChild ==
    /\ kEnv \in KidEnvs
    /\ kArgs \in {<<"/bin/true">>, <<>>}
    /\ kFiles0 \in {PreparedFiles, PreparedFiles \ {PathJoin("./namespace_fs", "dev/pts")}}
    /\ kControls \in {AllControls, {"pids.max", "cgroup.procs"}, {}}
    /\ kPc = "start"
    /\ kConfig = ZeroConfig
    /\ kSt = St0(kFiles0)
    /\ kCalls = <<>>
    /\ kRun = "" /\ kRet = "" /\ kExit = -1
    /\ PrepIdle
    /\ MemIdle
    /\ CgIdle
    /\ BindIdle
    /\ ParseIdle
    /\ EnvIdle
    /\ LifeIdle

\* a call of RunChildProcess with the error it returned ("" for nil); from
\* is the number of system calls made before it
Called(call, err, from) == [call |-> call, err |-> err, from |-> from]

kidFrame ==
    /\ UNCHANGED <<kEnv, kArgs, kFiles0, kControls>>
    /\ UNCHANGED <<prepVars, memVars, cgVars, bindVars>>
    /\ UNCHANGED <<parseVars, envVars, lifeVars>>

\* handleChild, lines 64-67, and RunChildProcess, lines 96-100
KidConfigFromEnv ==
    /\ kPc = "start"
    /\ IF Len(kArgs) = 0
       THEN /\ kExit' = 1 /\ kPc' = "done"
            /\ UNCHANGED <<kConfig, kCalls, kRet>>
       ELSE LET r == configFromEnv(kEnv)
            IN  /\ kExit' = kExit
                /\ IF r.ok
                   THEN /\ kConfig' = r.config
                        /\ kCalls' = Append(kCalls, Called("configFromEnv", "", 0))
                        /\ kPc' = "cgroups"
                        /\ kRet' = kRet
                   ELSE /\ kConfig' = kConfig
                        /\ kCalls' = Append(kCalls, Called("configFromEnv", "invalid mount count", 0))
                        /\ kPc' = "return"
                        /\ kRet' = "failed to parse container config from environment"
    /\ UNCHANGED <<kSt, kRun>>
    /\ kidFrame

\* RunChildProcess, lines 105-109
KidSetupCgroups ==
    /\ kPc = "cgroups"
    /\ \E refuse \in CgroupRefusals(NewDefaultCgroupConfig) :
          LET r == SetupCgroups(kSt, kControls, NewDefaultCgroupConfig, ChildPid, refuse)
          IN  /\ kSt' = r
              /\ kCalls' = Append(kCalls, Called("SetupCgroups", r.err, Len(kSt.ops)))
              /\ IF r.err = "" THEN kPc' = "fs" /\ kRet' = kRet
                 ELSE kPc' = "return" /\ kRet' = "failed to setup cgroups: " \o r.err
    /\ UNCHANGED <<kConfig, kRun, kExit>>
    /\ kidFrame

\* RunChildProcess, lines 111-114
KidSetupFilesystem ==
    /\ kPc = "fs"
    /\ \E refuse \in FilesystemRefusals(kConfig) :
          LET r == SetupFilesystem(kSt, kConfig, refuse)
          IN  /\ kSt' = r
              /\ kCalls' = Append(kCalls, Called("SetupFilesystem", r.err, Len(kSt.ops)))
              /\ IF r.err = "" THEN kPc' = "run" /\ kRet' = kRet
                 ELSE kPc' = "return" /\ kRet' = "failed to setup filesystem: " \o r.err
    /\ UNCHANGED <<kConfig, kRun, kExit>>
    /\ kidFrame

\* what cmd.Run returns for a command that ended with exit code c
ExitError(c) == IF c = 0 THEN "" ELSE "exit status " \o Itoa(c)

\* RunChildProcess, lines 118-131: cmd.Run returns when the command has
\* ended, or at once when it cannot be started
KidRunCommand ==
    /\ kPc = "run"
    /\ \/ /\ kSt' = Do(kSt, Op("exec", "", kArgs[1], {}, FALSE))
          /\ kRun' = "exec: not started"
       \/ \E c \in 0..MaxExit :
             /\ kSt' = Do(kSt, Op("exec", "", kArgs[1], {}, TRUE))
             /\ kRun' = ExitError(c)
    /\ kCalls' = Append(kCalls, Called("cmd.Run", kRun', Len(kSt.ops)))
    /\ kPc' = "cleanup"
    /\ UNCHANGED <<kConfig, kRet, kExit>>
    /\ kidFrame

\* RunChildProcess, lines 133-138: the cleanup error is logged, the error of
\* cmd.Run returned
KidCleanupFilesystem ==
    /\ kPc = "cleanup"
    /\ \E refuse \in CleanupRefusals :
          LET r == CleanupFilesystem(kSt, refuse)
          IN  /\ kSt' = r
              /\ kCalls' = Append(kCalls, Called("CleanupFilesystem", r.err, Len(kSt.ops)))
    /\ kRet' = kRun
    /\ kPc' = "return"
    /\ UNCHANGED <<kConfig, kRun, kExit>>
    /\ kidFrame

\* handleChild, lines 69-72
KidReturn ==
    /\ kPc = "return"
    /\ kExit' = ExitStatus(kRet # "", 1)
    /\ kPc' = "done"
    /\ UNCHANGED <<kConfig, kSt, kCalls, kRun, kRet>>
    /\ kidFrame

NextChild ==
    \/ KidConfigFromEnv
    \/ KidSetupCgroups
    \/ KidSetupFilesystem
    \/ KidRunCommand
    \/ KidCleanupFilesystem
    \/ KidReturn

SpecChild == InitChild /\ [][NextChild]_vars

(***************************************************************************)
(* The lifecycle: one `run` process (the parent) and the child it spawns,  *)
(* as two interleaved processes over the host's files, links and iptables  *)
(* rules.  A call that the environment may refuse (a netlink request, an   *)
(* iptables command, mkdir, fork) fails or succeeds nondeterministically.  *)
(***************************************************************************)
\* the command lines tried (os.Args[1:])
RunArgvs ==
    {<<"run", "/bin/true">>,
     <<"run", "--hostname=web", "--mount=/data:/data:ro", "/bin/sh", "-c">>,
     <<"run", "--network=10.0.0.7/24", "--host-ip=10.0.0.1",
       "--container-ip=10.0.0.2", "/bin/sh">>,
     <<"run", "--host-ip=192.168.1.2", "/bin/true">>,
     <<"run", "--host-ip=10.0.0.1", "/bin/true">>,
     <<"run", "--container-ip=10.9.9.9", "/bin/true">>,
     <<"run", "--network=bogus", "/bin/true">>,
     <<"run", "--hostname", "myhost", "/bin/sh">>,
     <<"run", "--rootfs=/missing", "/bin/true">>,
     <<"run", "--mount=/nosuch:/x", "/bin/true">>,
     <<"run", "--mount=:/x", "/bin/true">>,
     <<"run", "--mount=/data:", "/bin/true">>,
     <<"run", "--rootfs=", "/bin/true">>,
     <<"run", "">>,
     <<"run", "-h", "/bin/true">>,
     <<"run", "--hostname=web", "--help", "/bin/sh">>,
     <<"run", "-h">>,
     <<"run">>,
     <<"help">>,
     <<"version">>,
     <<"start">>,
     <<"child", "/bin/true">>,
     <<"child">>,
     <<>>}

\* the address "ip/bits" AddrAdd assigns
AddrFact(ip, bits) == "addr " \o IPString(ip) \o "/" \o Itoa(bits)

\* a masquerade rule left behind by an earlier run
LeakedRules == SetToBag({NATRules("192.168.1.0/24")[1]})

BaseLinks == {"lo", "eth0"}

\* a host on which another run with the default names has its container up:
\* its veth0 is configured in the host namespace (its veth1 is in the other
\* container's namespace) and its three rules are installed
OtherContainerHost ==
    [rules |-> AppendAll(EmptyBag, NATRules("192.168.1.0/24")),
     links |-> BaseLinks \cup {"veth0"},
     facts |-> {<<"host", "veth0", "up">>,
                <<"host", "veth0", AddrFact(ParseIP("192.168.1.1").ip, 24)>>}]

\* the hosts a run may start on: with and without a leaked rule, with and
\* without a veth pair left in the host namespace, or with another
\* container up
Hosts ==
    {[rules |-> r, links |-> l, facts |-> {}] :
        r \in {EmptyBag, LeakedRules},
        l \in {BaseLinks, BaseLinks \cup {"veth0", "veth1"}}}
    \cup {OtherContainerHost}

Init ==
    /\ ParseIdle
    /\ EnvIdle
    /\ CallIdle
    /\ euid \in {0, 1000}
    /\ osArgs \in RunArgvs
    /\ getwd \in GetwdResults
    /\ files0 \in {BaseFiles,
                   BaseFiles \cup Range(RequiredDirs("./namespace_fs")),
                   BaseFiles \cup Range(RequiredDirs("./namespace_fs"))
                       \cup {CgroupPath(NewDefaultCgroupConfig)}}
    /\ \E h \in Hosts :
          /\ iptables0 = h.rules
          /\ hostLinks0 = h.links
          /\ netcfg = h.facts
    /\ files = files0
    /\ iptables = iptables0
    /\ hostLinks = hostLinks0
    /\ childLinks = {}
    /\ ppc = "main" /\ plog = <<>> /\ pExit = -1 /\ config = ZeroConfig
    /\ threadNs = "host" /\ nsFds = {} /\ runErr = FALSE
    /\ cState = "none" /\ cpc = "none" /\ cExit = -1 /\ cEnv = <<>>
    /\ cArgs = <<>> /\ cConfig = ZeroConfig /\ cErr = FALSE /\ userExit = -1

\* The child's network namespace lives while the child runs, while the
\* parent holds a handle to it and while a thread of the parent is in it.
\* When it goes, the links in it are destroyed, and with veth1 its peer
\* veth0 in the host namespace.
SettleLinks(cs, fds, tns, palive, hl, cl, nc) ==
    IF cs \in {"none", "running"} \/ "containerNs" \in fds \/ (palive /\ tns = "child")
    THEN [h |-> hl, c |-> cl, n |-> nc]
    ELSE [h |-> IF "veth1" \in cl THEN hl \ {"veth0"} ELSE hl,
          c |-> {},
          n |-> {f \in nc : f[1] = "host" /\ ~("veth1" \in cl /\ f[2] = "veth0")}]

\* the links and facts after a step that left the child in state cs, the
\* parent with the handles fds and its thread in tns
Settled(cs, fds, tns, palive, hl, cl, nc) ==
    LET r == SettleLinks(cs, fds, tns, palive, hl, cl, nc)
    IN  hostLinks' = r.h /\ childLinks' = r.c /\ netcfg' = r.n

\* the parent process ends with the exit status code
ParentExits(code) ==
    /\ pExit' = code
    /\ ppc' = "exited"

notLife == <<parseVars, envVars, callVars, inputVars>>

(***************************************************************************)
(* main.go: main and handleRun.                                            *)
(***************************************************************************)
\* main: usage, help and version, then checkRoot, then the role.  The child
\* role typed on the command line (handleChild, and RunChildProcess, lines
\* 96-100) finds none of the CONTAINER_ variables in the environment and
\* goes on with the config configFromEnv makes of that
Main ==
    /\ ppc = "main"
    /\ IF Len(osArgs) < 1
       THEN ParentExits(1) /\ plog' = Append(plog, "printUsage")
       ELSE IF osArgs[1] \in {"help", "--help", "-h"}
       THEN ParentExits(0) /\ plog' = Append(plog, "printUsage")
       ELSE IF osArgs[1] \in {"version", "--version", "-v"}
       THEN ParentExits(0) /\ plog' = Append(plog, "printVersion")
       ELSE IF checkRoot(euid) # ""
       THEN ParentExits(1) /\ plog' = Append(plog, "checkRoot")
       ELSE IF osArgs[1] = "run"
       THEN ppc' = "handleRun" /\ pExit' = pExit /\ plog' = Append(plog, "checkRoot")
       ELSE IF osArgs[1] = "child"
       THEN /\ plog' = plog \o <<"checkRoot", "handleChild">>
            /\ IF Len(osArgs) < 2 \/ ~configFromEnv(HostEnviron).ok
               THEN ParentExits(ExitStatus(TRUE, 1))
               ELSE ppc' = "runChild" /\ pExit' = pExit
       ELSE ParentExits(1) /\ plog' = plog \o <<"checkRoot", "printUsage">>
    /\ UNCHANGED <<config, threadNs, nsFds, runErr>>
    /\ UNCHANGED <<notLife, hostVars, childVars>>

\* handleRun, lines 45-49: ParseFlags and its three outcomes
HandleRunParse ==
    /\ ppc = "handleRun"
    /\ plog' = Append(plog, "ParseFlags")
    /\ LET r == ParseFlags(Tail(osArgs), getwd)
       IN  IF r.kind = "ok"
           THEN config' = r.config /\ ppc' = "validate" /\ pExit' = pExit
           ELSE config' = config /\ ParentExits(IF r.kind = "exit" THEN r.code ELSE 1)
    /\ UNCHANGED <<threadNs, nsFds, runErr>>
    /\ UNCHANGED <<notLife, hostVars, childVars>>

(***************************************************************************)
(* container.go: RunContainer.                                             *)
(***************************************************************************)
\* RunContainer, lines 15-18
ValidateConfig ==
    /\ ppc = "validate"
    /\ plog' = Append(plog, "validateConfig")
    /\ IF validateConfig(config, files) = ""
       THEN ppc' = "prepare" /\ pExit' = pExit
       ELSE ParentExits(1)
    /\ UNCHANGED <<config, threadNs, nsFds, runErr>>
    /\ UNCHANGED <<notLife, hostVars, childVars>>

\* RunContainer, lines 20-23, with PrepareRootFS
DoPrepareRootFS ==
    /\ ppc = "prepare"
    /\ plog' = Append(plog, "PrepareRootFS")
    /\ \E made \in 0..Len(RequiredDirs(config.RootFS)) :
          LET r == PrepareRootFS(files, config.RootFS, made)
          IN  /\ files' = r.files
              /\ IF r.ok THEN ppc' = "start" /\ pExit' = pExit
                 ELSE ParentExits(1)
    /\ UNCHANGED <<config, threadNs, nsFds, runErr>>
    /\ UNCHANGED <<iptables, hostLinks, childLinks, netcfg>>
    /\ UNCHANGED <<notLife, childVars>>

\* RunContainer, lines 30-73: the child is started in new namespaces with
\* the config in its environment, or cmd.Start fails
StartChild ==
    /\ ppc = "start"
    /\ plog' = Append(plog, "Start")
    /\ \E started \in BOOLEAN :
          IF started
          THEN /\ cState' = "running"
               /\ cpc' = "c_main"
               /\ cEnv' = ChildEnv(HostEnviron, config)
               /\ cArgs' = config.Command
               /\ childLinks' = {"lo"}
               /\ ppc' = "net_hostns" /\ pExit' = pExit
          ELSE /\ UNCHANGED <<cState, cpc, cEnv, cArgs, childLinks>>
               /\ ParentExits(1)
    /\ UNCHANGED <<config, threadNs, nsFds, runErr>>
    /\ UNCHANGED <<cExit, cConfig, cErr, userExit>>
    /\ UNCHANGED <<files, iptables, hostLinks, netcfg>>
    /\ UNCHANGED notLife

(***************************************************************************)
(* network.go: SetupNetworking, one action for each call it makes.         *)
(***************************************************************************)
\* SetupNetworking returns an error: the deferred Close calls release the
\* namespace handles; the thread stays in the namespace tns
NetReturnsError(tns, hl, cl, nc) ==
    /\ ppc' = "net_failed"
    /\ nsFds' = {}
    /\ threadNs' = tns
    /\ Settled(cState, {}, tns, TRUE, hl, cl, nc)

netFrame ==
    /\ UNCHANGED <<pExit, config, runErr>>
    /\ UNCHANGED <<files, childVars, notLife>>

\* lines 18-23: netns.Get
NetGetHostNs ==
    /\ ppc = "net_hostns"
    /\ plog' = Append(plog, "netns.Get")
    /\ \E ok \in BOOLEAN :
          IF ok
          THEN /\ ppc' = "net_childns"
               /\ nsFds' = {"hostNs"}
               /\ UNCHANGED <<threadNs, hostLinks, childLinks, netcfg>>
          ELSE NetReturnsError(threadNs, hostLinks, childLinks, netcfg)
    /\ UNCHANGED iptables
    /\ netFrame

\* lines 25-29: netns.GetFromPid opens /proc/<pid>/ns/net, which is there
\* only while the child runs
NetGetChildNs ==
    /\ ppc = "net_childns"
    /\ plog' = Append(plog, "netns.GetFromPid")
    /\ \E ok \in BOOLEAN :
          IF ok /\ cState = "running"
          THEN /\ ppc' = "net_veth"
               /\ nsFds' = nsFds \cup {"containerNs"}
               /\ UNCHANGED <<threadNs, hostLinks, childLinks, netcfg>>
          ELSE NetReturnsError(threadNs, hostLinks, childLinks, netcfg)
    /\ UNCHANGED iptables
    /\ netFrame

\* createVethPair taking a name that is in use
createVethPairAnyway(links, ok) ==
    [ok |-> ok, links |-> IF ok THEN links \cup {"veth0", "veth1"} ELSE links]

\* createVethPair: LinkAdd makes veth0 and veth1 in the namespace of the
\* caller; it fails and makes nothing when either name is taken or when the
\* kernel refuses (~ok)
createVethPair(links, ok) ==
    LET free == "veth0" \notin links /\ "veth1" \notin links
    IN  [ok |-> ok /\ free,
         links |-> IF ok /\ free THEN links \cup {"veth0", "veth1"} ELSE links]

\* lines 31-34 of SetupNetworking
NetCreateVeth ==
    /\ ppc = "net_veth"
    /\ plog' = Append(plog, "createVethPair")
    /\ \E ok \in BOOLEAN :
          LET r == createVethPair(hostLinks, ok)
          IN  IF r.ok
              THEN /\ ppc' = "net_host"
                   /\ hostLinks' = r.links
                   /\ UNCHANGED <<threadNs, nsFds, childLinks, netcfg>>
              ELSE NetReturnsError(threadNs, r.links, childLinks, netcfg)
    /\ UNCHANGED iptables
    /\ netFrame

\* lines 36-39 with configureHostNetwork; failAt is the netlink call the
\* kernel refuses, "none" when it refuses none
NetConfigureHost ==
    /\ ppc = "net_host"
    /\ plog' = Append(plog, "configureHostNetwork")
    /\ \E failAt \in {"LinkByName", "LinkSetUp", "AddrAdd", "none"} :
          LET hostIP  == ParseIP(config.HostIP)
              hostNet == ParseCIDR(config.NetworkCIDR)
              up      == netcfg \cup {<<"host", "veth0", "up">>}
          IN  IF failAt \in {"LinkByName", "LinkSetUp"}
              THEN NetReturnsError(threadNs, hostLinks, childLinks, netcfg)
              ELSE IF ~hostIP.ok \/ ~hostNet.ok \/ failAt = "AddrAdd"
              THEN NetReturnsError(threadNs, hostLinks, childLinks, up)
              ELSE /\ ppc' = "net_move"
                   /\ netcfg' = up \cup {<<"host", "veth0", AddrFact(hostIP.ip, hostNet.bits)>>}
                   /\ UNCHANGED <<threadNs, nsFds, hostLinks, childLinks>>
    /\ UNCHANGED iptables
    /\ netFrame

\* lines 41-49: LinkByName("veth1") and LinkSetNsFd
NetMoveVeth1 ==
    /\ ppc = "net_move"
    /\ plog' = Append(plog, "LinkSetNsFd")
    /\ \E ok \in BOOLEAN :
          IF ok
          THEN /\ ppc' = "net_enter"
               /\ hostLinks' = hostLinks \ {"veth1"}
               /\ childLinks' = childLinks \cup {"veth1"}
               /\ UNCHANGED <<threadNs, nsFds, netcfg>>
          ELSE NetReturnsError(threadNs, hostLinks, childLinks, netcfg)
    /\ UNCHANGED iptables
    /\ netFrame

\* lines 51-54: netns.Set(containerNs)
NetEnterChildNs ==
    /\ ppc = "net_enter"
    /\ plog' = Append(plog, "netns.Set(containerNs)")
    /\ \E ok \in BOOLEAN :
          IF ok
          THEN /\ ppc' = "net_container"
               /\ threadNs' = netnsSet("child", threadNs, TRUE)
               /\ UNCHANGED <<nsFds, hostLinks, childLinks, netcfg>>
          ELSE NetReturnsError(threadNs, hostLinks, childLinks, netcfg)
    /\ UNCHANGED iptables
    /\ netFrame

\* the broadcast address of the network of ip/bits
BroadcastIP(ip, bits) ==
    [k \in 1..4 |-> MaskIP(ip, bits)[k] + 2 ^ (8 - OctetBits(bits, k)) - 1]

\* AddrAdd of ip/bits leaves a route to the network on the device, unless
\* the prefix is 0.0.0.0, the prefix length 32 or the address a multicast
\* address
HasConnectedRoute(ip, bits) ==
    /\ MaskIP(ip, bits) # <<0, 0, 0, 0>>
    /\ bits < 32
    /\ ip[1] \notin 224..239

\* RouteAdd of a default route via gw on a device with the address ip/bits:
\* the kernel takes the device's own address, the address 0.0.0.0 (a route
\* without a gateway), and an address on the connected network that is not
\* its broadcast address; it refuses every other gateway
GatewayReachable(gw, ip, bits) ==
    \/ gw = ip
    \/ gw = <<0, 0, 0, 0>>
    \/ /\ HasConnectedRoute(ip, bits)
       /\ MaskIP(gw, bits) = MaskIP(ip, bits)
       /\ ~(bits < 31 /\ gw = BroadcastIP(ip, bits))

\* configureContainerNetwork adding the route first and the loopback last
ContainerFactsRouteFirst(n, cfg) ==
    LET ip  == ParseIP(cfg.ContainerIP).ip
        net == ParseCIDR(cfg.NetworkCIDR)
    IN  (IF n >= 1 THEN {<<"child", "veth1", "default via " \o cfg.HostIP>>} ELSE {})
        \cup (IF n >= 2 THEN {<<"child", "veth1", "up">>} ELSE {})
        \cup (IF n >= 3 THEN {<<"child", "veth1", AddrFact(ip, net.bits)>>} ELSE {})
        \cup (IF n >= 4 THEN {<<"child", "lo", "up">>} ELSE {})

\* the facts configureContainerNetwork has established when it has passed
\* the first n of: loopback up, veth1 up, address added, route added
ContainerFacts(n, cfg) ==
    LET ip  == ParseIP(cfg.ContainerIP).ip
        net == ParseCIDR(cfg.NetworkCIDR)
    IN  (IF n >= 1 THEN {<<"child", "lo", "up">>} ELSE {})
        \cup (IF n >= 2 THEN {<<"child", "veth1", "up">>} ELSE {})
        \cup (IF n >= 3 THEN {<<"child", "veth1", AddrFact(ip, net.bits)>>} ELSE {})
        \cup (IF n >= 4 THEN {<<"child", "veth1", "default via " \o cfg.HostIP>>} ELSE {})

\* how many of those four steps configureContainerNetwork passes when the
\* kernel refuses the netlink call failAt
ContainerStepsPassed(failAt, cfg) ==
    With(ParseIP(cfg.ContainerIP), LAMBDA ip :
    With(ParseCIDR(cfg.NetworkCIDR), LAMBDA net :
    With(ParseIP(cfg.HostIP), LAMBDA gw :
        IF failAt = "lo" THEN 0
        ELSE IF failAt \in {"LinkByName", "LinkSetUp"} THEN 1
        ELSE IF ~ip.ok \/ ~net.ok \/ failAt = "AddrAdd" THEN 2
        ELSE IF failAt = "RouteAdd" \/ ~gw.ok
                \/ ~GatewayReachable(gw.ip, ip.ip, net.bits) THEN 3
        ELSE 4)))

\* lines 56-60 with configureContainerNetwork; on an error netns.Set(hostNs)
\* is called and its result ignored (back: whether it switched)
NetConfigureContainer ==
    /\ ppc = "net_container"
    /\ \E failAt \in {"lo", "LinkByName", "LinkSetUp", "AddrAdd", "RouteAdd", "none"} :
          \E passed \in {ContainerStepsPassed(failAt, config)} :
          \E facts \in {netcfg \cup ContainerFacts(passed, config)} :
              IF passed = 4
              THEN /\ ppc' = "net_back"
                   /\ plog' = Append(plog, "configureContainerNetwork")
                   /\ netcfg' = facts
                   /\ UNCHANGED <<threadNs, nsFds, hostLinks, childLinks>>
              ELSE /\ plog' = plog \o <<"configureContainerNetwork", "netns.Set(hostNs)">>
                   /\ \E back \in BOOLEAN :
                         NetReturnsError(netnsSet("host", threadNs, back),
                                         hostLinks, childLinks, facts)
    /\ UNCHANGED iptables
    /\ netFrame

\* lines 62-65: netns.Set(hostNs)
NetBackToHost ==
    /\ ppc = "net_back"
    /\ plog' = Append(plog, "netns.Set(hostNs)")
    /\ \E ok \in BOOLEAN :
          IF ok
          THEN /\ ppc' = "net_nat"
               /\ threadNs' = netnsSet("host", threadNs, TRUE)
               /\ UNCHANGED <<nsFds, hostLinks, childLinks, netcfg>>
          ELSE NetReturnsError(threadNs, hostLinks, childLinks, netcfg)
    /\ UNCHANGED iptables
    /\ netFrame

\* the places of the parent inside setupNAT: before the first, the second
\* and the third iptables command
NatPlaces == <<"net_nat", "net_nat:1", "net_nat:2">>

\* the number of iptables commands setupNAT has run at the place pc
NatDone(pc) == CHOOSE n \in 0..2 : NatPlaces[n + 1] = pc

\* lines 67-72 with setupNAT, one step for each iptables -A command: the
\* command is run and waited for, and setupNAT returns the error of the
\* first that fails; after the third SetupNetworking returns nil and its
\* deferred Close calls run.  The CIDR is parsed before the first command.
NetSetupNAT ==
    /\ ppc \in Range(NatPlaces)
    /\ \E network \in {ParseCIDR(config.NetworkCIDR)}, n \in {NatDone(ppc)} :
       \E entered \in {IF n = 0 THEN Append(plog, "setupNAT") ELSE plog} :
           IF ~network.ok
           THEN /\ plog' = entered
                /\ iptables' = iptables
                /\ NetReturnsError(threadNs, hostLinks, childLinks, netcfg)
           ELSE \E ok \in BOOLEAN :
                   IF ~ok
                   THEN /\ plog' = entered
                        /\ iptables' = iptables
                        /\ NetReturnsError(threadNs, hostLinks, childLinks, netcfg)
                   ELSE /\ iptables' = IptablesAppend(iptables,
                                           NATRules(NetworkString(network))[n + 1])
                        /\ IF n = 2
                           THEN /\ plog' = Append(entered, "SetupNetworking:ok")
                                /\ ppc' = "wait"
                                /\ nsFds' = {}
                                /\ threadNs' = threadNs
                                /\ Settled(cState, {}, threadNs, TRUE,
                                           hostLinks, childLinks, netcfg)
                           ELSE /\ plog' = entered
                                /\ ppc' = NatPlaces[n + 2]
                                /\ UNCHANGED <<threadNs, nsFds, hostLinks,
                                               childLinks, netcfg>>
    /\ netFrame

\* RunContainer, lines 76-80, and handleRun, lines 57-60: the child is
\* killed, the error returned and the process exits with status 1
KillAndReturn ==
    /\ ppc = "net_failed"
    /\ plog' = plog \o <<"Kill", "return">>
    /\ cState' = Kill(cState)
    /\ ParentExits(ExitStatus(TRUE, 1))
    /\ UNCHANGED <<threadNs, nsFds>>
    /\ Settled(Kill(cState), nsFds, threadNs, FALSE, hostLinks, childLinks, netcfg)
    /\ UNCHANGED <<config, runErr, files, iptables>>
    /\ UNCHANGED <<cpc, cExit, cEnv, cArgs, cConfig, cErr, userExit>>
    /\ UNCHANGED notLife

\* cmd.Wait that never returns
WaitNever(cs) == FALSE

\* cmd.Wait returns once the child has ended
WaitReturns(cs) == cs \in {"exited", "killed"}

\* RunContainer, line 85: cmd.Wait returns when the child has ended, with an
\* error unless the child exited with status 0
WaitChild ==
    /\ ppc = "wait"
    /\ WaitReturns(cState)
    /\ plog' = Append(plog, "Wait")
    /\ runErr' = (cState = "killed" \/ cExit # 0)
    /\ ppc' = "cleanup"
    /\ UNCHANGED <<pExit, config, threadNs, nsFds>>
    /\ UNCHANGED <<notLife, hostVars, childVars>>

\* the entry of the log for an iptables -D command that failed
DeleteFailed(rule) == "iptables -D failed: " \o rule

\* what CleanupNetwork leaves in the log: the call, and each command that
\* failed
CleanupLog(cfg, refused) ==
    With(ParseCIDR(cfg.NetworkCIDR), LAMBDA network :
        IF ~network.ok THEN <<"CleanupNetwork">>
        ELSE LET rules == CleanupRules(NetworkString(network))
                 F[i \in 0..Len(rules)] ==
                     IF i = 0 THEN <<"CleanupNetwork">>
                     ELSE IF i \in refused THEN Append(F[i - 1], DeleteFailed(rules[i]))
                     ELSE F[i - 1]
             IN  F[Len(rules)])

\* RunContainer, line 88: each of the three iptables -D commands may fail
\* (refused), and its error is thrown away
DoCleanupNetwork ==
    /\ ppc = "cleanup"
    /\ \E refused \in SUBSET (1..3) :
          /\ plog' = plog \o CleanupLog(config, refused)
          /\ iptables' = CleanupNetwork(iptables, config, refused)
    /\ ppc' = "return"
    /\ UNCHANGED <<pExit, config, threadNs, nsFds, runErr>>
    /\ UNCHANGED <<files, hostLinks, childLinks, netcfg>>
    /\ UNCHANGED <<notLife, childVars>>

\* RunContainer, line 91, and handleRun, lines 57-60
ReturnFromRun ==
    /\ ppc = "return"
    /\ plog' = Append(plog, "return")
    /\ ParentExits(ExitStatus(runErr, cExit))
    /\ UNCHANGED <<threadNs, nsFds, cState>>
    /\ Settled(cState, nsFds, threadNs, FALSE, hostLinks, childLinks, netcfg)
    /\ UNCHANGED <<config, runErr, files, iptables>>
    /\ UNCHANGED <<cpc, cExit, cEnv, cArgs, cConfig, cErr, userExit>>
    /\ UNCHANGED notLife

(***************************************************************************)
(* The child role typed on the command line: handleChild and               *)
(* RunChildProcess run in the process started, in the namespaces of the    *)
(* host, with the environment of the host.                                 *)
(***************************************************************************)
\* os.Getpid of a process of the host
HostPid == "4242"

\* RunChildProcess in the process started with `child`, one step for each
\* of: SetupCgroups (lines 105-109); SetupFilesystem (lines 111-114);
\* cmd.Run, CleanupFilesystem and the return to handleChild (lines 118-138
\* and main.go lines 69-72).  The config is the one configFromEnv reads
\* from the host's environment.
RunChildProcess ==
    /\ ppc \in {"runChild", "runChild_fs", "runChild_cmd"}
    /\ \E cfg \in {configFromEnv(HostEnviron).config} :
          IF ppc = "runChild"
          THEN /\ plog' = Append(plog, "SetupCgroups")
               /\ \E refuse \in CgroupRefusals(NewDefaultCgroupConfig) :
                  \E r \in {SetupCgroups(St0(files), AllControls,
                                         NewDefaultCgroupConfig, HostPid, refuse)} :
                      /\ files' = r.files
                      /\ IF r.err = "" THEN ppc' = "runChild_fs" /\ pExit' = pExit
                         ELSE ParentExits(ExitStatus(TRUE, 1))
          ELSE IF ppc = "runChild_fs"
          THEN /\ plog' = Append(plog, "SetupFilesystem")
               /\ \E refuse \in FilesystemRefusals(cfg) :
                  \E r \in {SetupFilesystem(St0(files), cfg, refuse)} :
                      /\ files' = r.files
                      /\ IF r.err = "" THEN ppc' = "runChild_cmd" /\ pExit' = pExit
                         ELSE ParentExits(ExitStatus(TRUE, 1))
          ELSE /\ plog' = plog \o <<"cmd.Run", "CleanupFilesystem">>
               /\ files' = files
               /\ \E failed \in BOOLEAN : ParentExits(ExitStatus(failed, 1))
    /\ UNCHANGED <<config, threadNs, nsFds, runErr>>
    /\ UNCHANGED <<iptables, hostLinks, childLinks, netcfg>>
    /\ UNCHANGED <<notLife, childVars>>

(***************************************************************************)
(* The child: main, handleChild and RunChildProcess.                       *)
(***************************************************************************)
\* the child process ends with the exit status code
ChildExits(code) ==
    /\ cExit' = code
    /\ cState' = "exited"
    /\ cpc' = "done"
    /\ UNCHANGED <<threadNs, nsFds>>
    /\ Settled("exited", nsFds, threadNs, pExit = -1, hostLinks, childLinks, netcfg)

childFrame ==
    /\ UNCHANGED <<ppc, plog, pExit, config, runErr>>
    /\ UNCHANGED <<files, iptables, cEnv, cArgs, notLife>>

childStays ==
    /\ UNCHANGED <<cState, cExit, threadNs, nsFds, hostLinks, childLinks, netcfg>>

\* main and handleChild, then RunChildProcess, lines 96-100: configFromEnv
ChildConfigFromEnv ==
    /\ cState = "running" /\ cpc = "c_main"
    /\ \E r \in {configFromEnv(cEnv)} :
           IF Len(cArgs) = 0 \/ ~r.ok
           THEN ChildExits(ExitStatus(TRUE, 1)) /\ cConfig' = cConfig
           ELSE cConfig' = r.config /\ cpc' = "c_cgroups" /\ childStays
    /\ UNCHANGED <<cErr, userExit>>
    /\ childFrame

\* RunChildProcess, lines 105-109: SetupCgroups on the default group
ChildSetupCgroups ==
    /\ cState = "running" /\ cpc = "c_cgroups"
    /\ \E refuse \in CgroupRefusals(NewDefaultCgroupConfig) :
          \E r \in {SetupCgroups(St0(files), AllControls, NewDefaultCgroupConfig,
                                 ChildPid, refuse)} :
              /\ files' = r.files
              /\ IF r.err = "" THEN cpc' = "c_fs" /\ childStays
                 ELSE ChildExits(ExitStatus(TRUE, 1))
    /\ UNCHANGED <<cConfig, cErr, userExit>>
    /\ UNCHANGED <<ppc, plog, pExit, config, runErr>>
    /\ UNCHANGED <<iptables, cEnv, cArgs, notLife>>

\* RunChildProcess, lines 111-114: SetupFilesystem
ChildSetupFilesystem ==
    /\ cState = "running" /\ cpc = "c_fs"
    /\ \E refuse \in FilesystemRefusals(cConfig) :
          \E r \in {SetupFilesystem(St0(files), cConfig, refuse)} :
              /\ files' = r.files
              /\ IF r.err = "" THEN cpc' = "c_run" /\ childStays
                 ELSE ChildExits(ExitStatus(TRUE, 1))
    /\ UNCHANGED <<cConfig, cErr, userExit>>
    /\ UNCHANGED <<ppc, plog, pExit, config, runErr>>
    /\ UNCHANGED <<iptables, cEnv, cArgs, notLife>>

\* RunChildProcess, lines 118-131: cmd.Run starts the user command, or
\* fails to and returns an error
ChildStartCommand ==
    /\ cState = "running" /\ cpc = "c_run"
    /\ \E started \in BOOLEAN :
          IF started THEN cpc' = "c_cmd" /\ cErr' = cErr
          ELSE cpc' = "c_cleanup" /\ cErr' = TRUE
    /\ childStays
    /\ UNCHANGED <<cConfig, userExit>>
    /\ childFrame

\* the user command ends with exit code c; cmd.Run returns an error unless
\* c is 0
UserCommandExits ==
    /\ cState = "running" /\ cpc = "c_cmd"
    /\ \E c \in 0..MaxExit :
          /\ userExit' = c
          /\ cErr' = (c # 0)
    /\ cpc' = "c_cleanup"
    /\ childStays
    /\ UNCHANGED cConfig
    /\ childFrame

\* RunChildProcess, lines 133-136: CleanupFilesystem, its error only logged
ChildCleanupFilesystem ==
    /\ cState = "running" /\ cpc = "c_cleanup"
    /\ cpc' = "c_return"
    /\ childStays
    /\ UNCHANGED <<cConfig, cErr, userExit>>
    /\ childFrame

\* RunChildProcess, line 138, and handleChild, lines 69-72
ChildReturn ==
    /\ cState = "running" /\ cpc = "c_return"
    /\ ChildExits(ExitStatus(cErr, userExit))
    /\ UNCHANGED <<cConfig, cErr, userExit>>
    /\ childFrame

Next ==
    \/ Main
    \/ HandleRunParse
    \/ ValidateConfig
    \/ DoPrepareRootFS
    \/ StartChild
    \/ NetGetHostNs
    \/ NetGetChildNs
    \/ NetCreateVeth
    \/ NetConfigureHost
    \/ NetMoveVeth1
    \/ NetEnterChildNs
    \/ NetConfigureContainer
    \/ NetBackToHost
    \/ NetSetupNAT
    \/ KillAndReturn
    \/ WaitChild
    \/ DoCleanupNetwork
    \/ ReturnFromRun
    \/ RunChildProcess
    \/ ChildConfigFromEnv
    \/ ChildSetupCgroups
    \/ ChildSetupFilesystem
    \/ ChildStartCommand
    \/ UserCommandExits
    \/ ChildCleanupFilesystem
    \/ ChildReturn

Spec == Init /\ [][Next]_vars

\* the steps of the parent process
ParentNext ==
    \/ Main
    \/ HandleRunParse
    \/ ValidateConfig
    \/ DoPrepareRootFS
    \/ StartChild
    \/ NetGetHostNs
    \/ NetGetChildNs
    \/ NetCreateVeth
    \/ NetConfigureHost
    \/ NetMoveVeth1
    \/ NetEnterChildNs
    \/ NetConfigureContainer
    \/ NetBackToHost
    \/ NetSetupNAT
    \/ KillAndReturn
    \/ WaitChild
    \/ DoCleanupNetwork
    \/ ReturnFromRun
    \/ RunChildProcess

\* the steps of the child's own code; when the user command ends is up to
\* the command
ChildSteps ==
    \/ ChildConfigFromEnv
    \/ ChildSetupCgroups
    \/ ChildSetupFilesystem
    \/ ChildStartCommand
    \/ ChildCleanupFilesystem
    \/ ChildReturn

\* the runs followed to their end: as root, with a rootfs that is there and
\* one that is not, and the child role typed by hand, on a host with no rule
\* of an earlier run, with a veth pair left over, or with another container
\* up
InitFair ==
    /\ Init
    /\ euid = 0
    /\ osArgs \in {<<"run", "/bin/true">>, <<"run", "--rootfs=/missing", "/bin/true">>,
                   <<"child", "/bin/true">>}
    /\ files0 = BaseFiles
    /\ iptables0 \in {EmptyBag, OtherContainerHost.rules}

\* The two processes are scheduled by the kernel: a process that can take
\* a step of its code takes it in the end.
SpecFair == InitFair /\ [][Next]_vars /\ WF_vars(ParentNext) /\ WF_vars(ChildSteps)

(***************************************************************************)
(* Properties of ParseFlags and parseMount.                                *)
(***************************************************************************)
\* the tokens before the command and the command, as the flag terminator
\* rule reads an argument list
HasCommandToken(args) == \E i \in 1..Len(args) : ~HasPrefix(args[i], "-")

FlagPrefix(args) ==
    IF HasCommandToken(args) THEN SubSeq(args, 1, CommandStart(args)) ELSE args

CommandSuffix(args) ==
    IF HasCommandToken(args)
    THEN SubSeq(args, CommandStart(args) + 1, Len(args)) ELSE <<>>

\* every token of the prefix is read as a well-formed flag of the flag set,
\* with a well-formed mount specification where it is a mount flag
WellFormedFlags(prefix) ==
    LET r == flagSetParse(prefix, FlagDefaults)
    IN  r.err = "" /\ ParseMounts(r.mount).ok

\* the --mount values the flag set collected from the argument list
MountFlagsOf(args) ==
    IF CommandStart(args) = 0 THEN <<>>
    ELSE flagSetParse(SubSeq(args, 1, CommandStart(args)), FlagDefaults).mount

\* C4: "--flag VALUE cmd args..." with the value given as a separate token
\* yields a config whose field is VALUE and whose Command is <<cmd, args...>>;
\* the value token is not taken as the start of the command.
C4_SeparateValueToken ==
    (/\ pPc = "done"
     /\ Len(pArgs) >= 3
     /\ pArgs[1] \in {"--hostname", "--mount"}
     /\ ~HasPrefix(pArgs[2], "-")
     /\ ~HasPrefix(pArgs[3], "-")
     /\ (pArgs[1] = "--mount" => parseMount(pArgs[2]).ok))
    => /\ pResult.kind = "ok"
       /\ pResult.config.Command = SubSeq(pArgs, 3, Len(pArgs))
       /\ (pArgs[1] = "--hostname" => pResult.config.Hostname = pArgs[2])
       /\ (pArgs[1] = "--mount"
             => pResult.config.Mounts = <<parseMount(pArgs[2]).mount>>)

\* C5: parsing succeeds iff every token before the first token that does not
\* begin with "-" is a well-formed flag and such a token exists; on success
\* the Command is the suffix starting at that token; a non-empty argument
\* list of tokens that all begin with "-" is rejected with "no command
\* specified".
C5_FlagTerminator ==
    pPc = "done"
    => /\ (pResult.kind = "ok"
             <=> HasCommandToken(pArgs) /\ WellFormedFlags(FlagPrefix(pArgs)))
       /\ (pResult.kind = "ok" => pResult.config.Command = CommandSuffix(pArgs))
       /\ (Len(pArgs) > 0 /\ ~HasCommandToken(pArgs)
             => pResult.kind = "err" /\ pResult.err = "no command specified")

\* C6: parseMount maps "a:b" to the read-write mount a -> b, "a:b:ro" to the
\* read-only mount a -> b, and rejects every other shape, a third field other
\* than "ro" included.
C6_ParseMountShapes ==
    pPc = "done"
    => LET parts == Split(pMountStr, ":")
       IN  IF Len(parts) = 2
           THEN pMount.ok /\ pMount.mount = MkMount(parts[1], parts[2], FALSE)
           ELSE IF Len(parts) = 3 /\ parts[3] = "ro"
           THEN pMount.ok /\ pMount.mount = MkMount(parts[1], parts[2], TRUE)
           ELSE ~pMount.ok

RoundTripDone == ePc = "done" /\ eConfig # ZeroConfig

\* C8: for every config, one with zero mounts included, configFromEnv
\* returns no error and a config equal to the one RunContainer serialised in
\* hostname, rootfs, network CIDR, host IP, container IP and mount sequence.
C8_EnvRoundTrip ==
    RoundTripDone
    => /\ eResult.ok
       /\ eResult.config.Hostname = eConfig.Hostname
       /\ eResult.config.RootFS = eConfig.RootFS
       /\ eResult.config.NetworkCIDR = eConfig.NetworkCIDR
       /\ eResult.config.HostIP = eConfig.HostIP
       /\ eResult.config.ContainerIP = eConfig.ContainerIP
       /\ eResult.config.Mounts = eConfig.Mounts

\* C9: configFromEnv returns zero mounts and no error when
\* CONTAINER_MOUNT_COUNT is unset or empty, an error and no config when the
\* count is negative or not a number, and for a count N reads exactly the
\* mount variables of the indices 0..N-1, in increasing order.
C9_MountCount ==
    ePc = "done"
    => LET c == Getenv(eEnv, "CONTAINER_MOUNT_COUNT")
           n == Atoi(c)
           mountReads == SubSeq(eResult.reads, Len(HeaderReads) + 1,
                                Len(eResult.reads))
       IN  /\ SubSeq(eResult.reads, 1, Len(HeaderReads)) = HeaderReads
           /\ (c = "" => eResult.ok /\ eResult.config.Mounts = <<>>)
           /\ (c # "" /\ (~n.ok \/ n.val < 0)
                 => ~eResult.ok /\ eResult.config = ZeroConfig)
           /\ (n.ok /\ n.val >= 0
                 => /\ Len(mountReads) = 3 * n.val
                    /\ \A i \in 0..(n.val - 1) :
                          /\ mountReads[3 * i + 1] = MountVar(i, "SOURCE")
                          /\ mountReads[3 * i + 2] = MountVar(i, "DEST")
                          /\ mountReads[3 * i + 3] = MountVar(i, "READONLY"))
           /\ (eResult.ok /\ c # ""
                 => /\ Len(eResult.config.Mounts) = n.val
                    /\ \A i \in 0..(n.val - 1) :
                          eResult.config.Mounts[i + 1] =
                             MkMount(Getenv(eEnv, MountVar(i, "SOURCE")),
                                     Getenv(eEnv, MountVar(i, "DEST")),
                                     Getenv(eEnv, MountVar(i, "READONLY")) = "true"))

\* C9 witness: a child entered with the count 2 has read two mounts
C9_Witness ==
    /\ ePc = "done"
    /\ Getenv(eEnv, "CONTAINER_MOUNT_COUNT") = "2"
    /\ eResult.ok
    /\ Len(eResult.config.Mounts) = 2
    /\ Len(eResult.reads) = Len(HeaderReads) + 6

(***************************************************************************)
(* Properties of the lifecycle.                                            *)
(***************************************************************************)
\* positions of the call e in the parent's log
Calls(e) == {i \in DOMAIN plog : plog[i] = e}

\* the parent process has ended
ParentExited == pExit # -1

\* C1 as stated: once SetupNetworking has succeeded, CleanupNetwork is called
\* exactly once, after Wait has returned and before RunContainer returns,
\* whatever the child's exit status; and once it has run, every rule this run
\* appended is gone again: the rule list is the one the run started with.
C1_CleanupAfterWait ==
    /\ Cardinality(Calls("CleanupNetwork")) <= 1
    /\ \A i \in Calls("CleanupNetwork") :
          /\ \E w \in Calls("Wait") :
                /\ w < i
                /\ \E s \in Calls("SetupNetworking:ok") : s < w
          /\ \A r \in Calls("return") : i < r
          /\ iptables = iptables0
    /\ (Calls("SetupNetworking:ok") # {} /\ Calls("return") # {})
          => Cardinality(Calls("CleanupNetwork")) = 1

\* the iptables -D command for the rule failed in CleanupNetwork
NotDeleted(rule) == Calls(DeleteFailed(rule)) # {}

\* the rules this run appended whose deletion failed
RulesNotDeleted ==
    SelectSeq(NATRules(NetworkString(ParseCIDR(config.NetworkCIDR))), NotDeleted)

\* C1: once SetupNetworking has succeeded, CleanupNetwork is called exactly
\* once, after Wait has returned and before RunContainer returns, whatever
\* the child's exit status; once it has run, each rule this run appended
\* whose iptables -D command succeeded is gone again, and a rule whose
\* command failed is still installed: the rule list is the one the run
\* started with and the rules not deleted.
C1_CleanupBestEffort ==
    /\ Cardinality(Calls("CleanupNetwork")) <= 1
    /\ \A i \in Calls("CleanupNetwork") :
          /\ \E w \in Calls("Wait") :
                /\ w < i
                /\ \E s \in Calls("SetupNetworking:ok") : s < w
          /\ \A r \in Calls("return") : i < r
          /\ iptables = AppendAll(iptables0, RulesNotDeleted)
    /\ (Calls("SetupNetworking:ok") # {} /\ Calls("return") # {})
          => Cardinality(Calls("CleanupNetwork")) = 1

\* a run whose child failed after the network was set up, on a host that
\* already had a copy of the masquerade rule, has cleaned up and returned;
\* one of the three deletions failed
C1_Witness ==
    /\ ParentExited
    /\ Calls("SetupNetworking:ok") # {}
    /\ Calls("CleanupNetwork") # {}
    /\ runErr
    /\ userExit = 2
    /\ iptables0 = LeakedRules
    /\ Len(RulesNotDeleted) = 1

\* C2: when RunContainer has returned, on whichever path, no rule this run
\* installed is still installed.
C2_NoRuleLeftOnReturn ==
    ParentExited => iptables = iptables0

\* C3: when every setup step succeeded in the parent and in the child and
\* the user command exited with code c, the run process exits with code c.
C3_ExitCodePropagates ==
    (ParentExited /\ Calls("SetupNetworking:ok") # {} /\ userExit # -1)
        => pExit = userExit

\* host_ip equals container_ip, or one of them lies outside network_cidr
IPInvariantBroken(cfg) ==
    LET h == ParseIP(cfg.HostIP)
        c == ParseIP(cfg.ContainerIP)
        n == ParseCIDR(cfg.NetworkCIDR)
    IN  /\ h.ok /\ c.ok /\ n.ok
        /\ \/ h.ip = c.ip
           \/ ~Contains(n, h.ip)
           \/ ~Contains(n, c.ip)

\* C10: for a config in which host_ip equals container_ip or one of them
\* lies outside network_cidr, RunContainer changes nothing: no rootfs
\* directory is created, no child spawned, no veth pair created and no
\* iptables rule installed.
C10_AddressesValidatedFirst ==
    (config # ZeroConfig /\ IPInvariantBroken(config))
        => /\ files = files0
           /\ cState = "none"
           /\ hostLinks = hostLinks0
           /\ iptables = iptables0

\* a configuration error: the command or its first word is empty, the rootfs
\* path is empty or missing, a mount source is empty or missing, or a mount
\* destination is empty; fs is the set of existing paths
ConfigInvalid(cfg, fs) ==
    \/ Len(cfg.Command) = 0
    \/ cfg.Command[1] = ""
    \/ cfg.RootFS = ""
    \/ cfg.RootFS \notin fs
    \/ \E i \in 1..Len(cfg.Mounts) :
          \/ cfg.Mounts[i].Source = ""
          \/ cfg.Mounts[i].Source \notin fs
          \/ cfg.Mounts[i].Destination = ""

\* nothing on the host has been changed by the run
NoStateChange ==
    /\ Calls("PrepareRootFS") = {}
    /\ files = files0
    /\ cState = "none"
    /\ hostLinks = hostLinks0
    /\ iptables = iptables0

\* C11: a configuration error (found by validateConfig, or a missing command
\* found by ParseFlags) makes RunContainer return the error at validation,
\* with no state change: PrepareRootFS has not run, no child was spawned, no
\* veth pair and no iptables rule was made; the process exits with code 1.
C11_ConfigErrorNoStateChange ==
    /\ (config # ZeroConfig /\ ConfigInvalid(config, files0))
          => /\ NoStateChange
             /\ Calls("validateConfig") # {} => ParentExited
             /\ ParentExited => pExit = 1
    /\ (Calls("ParseFlags") # {} /\ ParseFlags(Tail(osArgs), getwd).kind = "err")
          => /\ NoStateChange
             /\ ParentExited
             /\ pExit = 1

\* a run given a mount with an empty destination has exited
C11_Witness ==
    /\ ParentExited
    /\ pExit = 1
    /\ Calls("validateConfig") # {}
    /\ \E i \in 1..Len(config.Mounts) : config.Mounts[i].Destination = ""

\* the first word of the command line asks for help or for the version
HelpOrVersion ==
    /\ Len(osArgs) >= 1
    /\ osArgs[1] \in {"help", "--help", "-h", "version", "--version", "-v"}

\* C12: with an effective UID other than 0 the run and child roles exit
\* with code 1 before any state change: neither ParseFlags nor handleChild
\* nor any later step is reached; help and version exit 0 without the root
\* check, whatever the UID.
C12_RootCheckFirst ==
    /\ (euid # 0 /\ Len(osArgs) >= 1 /\ osArgs[1] \in {"run", "child"})
          => /\ Calls("ParseFlags") = {}
             /\ Calls("handleChild") = {}
             /\ NoStateChange
             /\ config = ZeroConfig
             /\ ppc \in {"main", "exited"}
             /\ ParentExited => pExit = 1
    /\ HelpOrVersion
          => /\ Calls("checkRoot") = {}
             /\ NoStateChange
             /\ ppc \in {"main", "exited"}
             /\ ParentExited => pExit = 0

\* a run by an ordinary user has been turned away
C12_Witness ==
    /\ euid # 0
    /\ Len(osArgs) >= 2
    /\ osArgs[1] = "run"
    /\ ParentExited
    /\ plog = <<"checkRoot">>

\* C13: when the container run has finished and the parent process has
\* exited, the cgroup directory that SetupCgroups created no longer exists.
C13_CgroupRemoved ==
    (ParentExited /\ cState \in {"exited", "killed"})
        => (CgroupPath(NewDefaultCgroupConfig) \in files
               => CgroupPath(NewDefaultCgroupConfig) \in files0)

\* C14: on an existing rootfs every call of PrepareRootFS, the first and
\* each one after it, succeeds when the system refuses no mkdir, and after
\* each call that succeeded proc, dev, dev/pts, etc, app and tmp exist under
\* the rootfs; on a rootfs path that does not exist every call returns an
\* error and nothing is created.
C14_PrepareIdempotent ==
    /\ rRootfs \in rFiles0
          => \A i \in 1..Len(rCalls) :
                /\ rCalls[i].made = 6 => rCalls[i].ok
                /\ (i = Len(rCalls) /\ rCalls[i].ok)
                      => \A d \in {"proc", "dev", "dev/pts", "etc", "app", "tmp"} :
                            PathJoin(rRootfs, d) \in rFiles
    /\ rRootfs \notin rFiles0
          => /\ \A i \in 1..Len(rCalls) : ~rCalls[i].ok
             /\ rFiles = rFiles0

\* three calls in a row have succeeded on a rootfs that had no
\* subdirectory to begin with
C14_Witness ==
    /\ rRootfs = "./namespace_fs"
    /\ rFiles0 = {"./namespace_fs", "/home/user"}
    /\ Len(rCalls) >= 2
    /\ \A i \in 1..Len(rCalls) : rCalls[i].ok

\* the number of zero digits that stand for the last character of s
SuffixZeros(s) ==
    IF s = "" THEN 0
    ELSE LET c == Char(s, Len(s))
         IN  IF c \in {"K", "k"} THEN 3
             ELSE IF c \in {"M", "m"} THEN 6
             ELSE IF c \in {"G", "g"} THEN 9
             ELSE 0

\* C15: ParseMemorySize returns the input with a trailing K/k, M/m or G/g
\* replaced by three, six or nine zero digits, every other input (the empty
\* string too) unchanged, and never an error: "10K" gives "10000", "2M"
\* "2000000", "3G" "3000000000", "500" "500" and "" "".
C15_ParseMemorySize ==
    mPc = "done"
        => /\ mResult.err = ""
           /\ IF SuffixZeros(mSize) = 0
              THEN mResult.value = mSize
              ELSE /\ Len(mResult.value) = Len(mSize) - 1 + SuffixZeros(mSize)
                   /\ \A i \in 1..Len(mResult.value) :
                         Char(mResult.value, i) =
                            IF i < Len(mSize) THEN Char(mSize, i) ELSE "0"
           /\ mSize = "10K" => mResult.value = "10000"
           /\ mSize = "2M" => mResult.value = "2000000"
           /\ mSize = "3G" => mResult.value = "3000000000"
           /\ mSize = "500" => mResult.value = "500"
           /\ mSize = "" => mResult.value = ""

\* a size with a lower-case suffix has been converted
C15_Witness ==
    /\ mPc = "done"
    /\ mSize = "10k"
    /\ mResult.value = "10000"

\* the container's side of the network is configured: veth1 is in the
\* child's namespace with the container address and the default route
ContainerNetworkReady ==
    /\ "veth1" \in childLinks
    /\ <<"child", "veth1", "default via " \o config.HostIP>> \in netcfg

\* C16: in every interleaving the user command runs in the container only
\* once the parent has finished the container-side network configuration.
C16_CommandAfterNetwork ==
    (cState = "running" /\ cpc = "c_cmd") => ContainerNetworkReady

\* C17: the parent's step that takes the handle to the child's network
\* namespace succeeds also when the child has already run to completion
\* with exit status 0, so that a fast successful command never makes the
\* run report a network-setup failure.
C17_EarlyExitHarmless ==
    [][(ppc = "net_childns" /\ cState = "exited" /\ cExit = 0
            /\ ppc' # "net_childns")
        => ppc' = "net_veth"]_vars

\* SetupNetworking was called and has returned an error to a parent that
\* has since exited
NetworkFailedAndExited ==
    /\ ParentExited
    /\ Calls("netns.Get") # {}
    /\ Calls("SetupNetworking:ok") = {}

\* C18: whenever SetupNetworking returns an error, RunContainer kills the
\* child before it returns, returns the error, and the process exits with
\* code 1; the parent does not wait for the child on this path, and kills
\* on no other path.
C18_KillOnNetworkFailure ==
    /\ NetworkFailedAndExited
          => /\ pExit = 1
             /\ cState \in {"killed", "exited"}
             /\ Calls("Wait") = {}
             /\ Calls("return") # {}
             /\ \E k \in Calls("Kill") : \A r \in Calls("return") : k < r
    /\ ppc = "net_failed" => ENABLED KillAndReturn
    /\ Calls("Kill") # {} => Calls("SetupNetworking:ok") = {}

\* the child was killed while the user command was running
C18_Witness ==
    /\ NetworkFailedAndExited
    /\ cState = "killed"
    /\ cpc = "c_cmd"

\* C19: after RunContainer has returned on any path and the child has
\* terminated, no veth0 or veth1 made by this run is left in the host's
\* network namespace.
C19_NoVethLeft ==
    (ParentExited /\ cState \in {"exited", "killed"})
        => hostLinks = hostLinks0

\* C20: when configureContainerNetwork fails, the switch back to the host
\* namespace is called before SetupNetworking returns the error; and the
\* iptables commands of setupNAT run only after a switch back that
\* succeeded, with the thread in the host namespace.
C20_BackToHostFirst ==
    /\ ppc # "net_back"
          => \A i \in Calls("configureContainerNetwork") :
                i < Len(plog) /\ plog[i + 1] = "netns.Set(hostNs)"
    /\ ppc \in Range(NatPlaces) => threadNs = "host"
    /\ \A i \in Calls("setupNAT") :
          /\ i > 1
          /\ plog[i - 1] = "netns.Set(hostNs)"
          /\ threadNs = "host"
    /\ iptables # iptables0 => Calls("setupNAT") # {}

\* configureContainerNetwork has failed at the route, the switch back was
\* called and SetupNetworking has returned the error
C20_Witness ==
    /\ ppc = "net_failed"
    /\ Len(plog) >= 2
    /\ plog[Len(plog) - 1] = "configureContainerNetwork"
    /\ plog[Len(plog)] = "netns.Set(hostNs)"
    /\ <<"child", "veth1", "up">> \in netcfg
    /\ ~ContainerNetworkReady

\* the calls of SetupNetworking in the order of its source
NetOrder ==
    <<"netns.Get", "netns.GetFromPid", "createVethPair", "configureHostNetwork",
      "LinkSetNsFd", "netns.Set(containerNs)", "configureContainerNetwork",
      "netns.Set(hostNs)", "setupNAT", "SetupNetworking:ok">>

IsNetCall(e) == e \in Range(NetOrder)

\* the calls SetupNetworking has made so far
NetCalls == SelectSeq(plog, IsNetCall)

IsPrefix(a, b) == Len(a) <= Len(b) /\ a = SubSeq(b, 1, Len(a))

\* veth0 is up and has the host address
HostEndConfigured ==
    /\ <<"host", "veth0", "up">> \in netcfg
    /\ \E f \in netcfg : f[1] = "host" /\ f[2] = "veth0" /\ f[3] # "up"

\* a fact of the given kind about veth1 in the child's namespace
Veth1Has(prefix) ==
    \E f \in netcfg : f[1] = "child" /\ f[2] = "veth1" /\ HasPrefix(f[3], prefix)

\* the calls are made in the order of NetOrder, none after the kill; inside
\* the child's namespace lo is up before veth1 is up, before the address is
\* added, before the route is added; the host end is configured before
\* veth1 is moved, and the NAT rules are installed only when both ends are
\* configured
NetworkStepOrder ==
    /\ IsPrefix(NetCalls, NetOrder)
    /\ \A k \in Calls("Kill") : \A i \in DOMAIN plog : i > k => ~IsNetCall(plog[i])
    /\ ppc = "net_failed" => Calls("setupNAT") = {} \/ plog[Len(plog)] = "setupNAT"
    /\ "veth1" \in childLinks => HostEndConfigured
    /\ Veth1Has("default via ") => Veth1Has("addr ")
    /\ Veth1Has("addr ") => <<"child", "veth1", "up">> \in netcfg
    /\ <<"child", "veth1", "up">> \in netcfg => <<"child", "lo", "up">> \in netcfg
    /\ (\E f \in netcfg : f[1] = "host" /\ f[3] # "up")
          => <<"host", "veth0", "up">> \in netcfg
    /\ ppc \in Range(NatPlaces) => HostEndConfigured /\ ContainerNetworkReady
    /\ iptables # iptables0 => "setupNAT" \in Range(NetCalls)

\* a step in which a call of SetupNetworking fails: the calls logged before
\* the step have succeeded, and SetupNetworking returns the error
NetFails == ppc # "net_failed" /\ ppc' = "net_failed"

\* the calls of SetupNetworking made in a step, the failing one first
StepCalls == SelectSeq(SubSeq(plog', Len(plog) + 1, Len(plog')), IsNetCall)

\* C21 as stated: SetupNetworking makes its calls in the order of NetOrder
\* and, when one of them fails, makes none of the later ones (the return to
\* the host namespace is one of them); with the order of the steps inside
\* the child's namespace, the host end configured before the move of veth1
\* and the NAT rules installed only when both ends are configured.
C21_StopsAtFirstFailure ==
    /\ []NetworkStepOrder
    /\ [][NetFails => Len(StepCalls) <= 1]_vars

\* C21: SetupNetworking makes its calls in the order of NetOrder; a call that
\* fails is the last one it makes, except that after a failing
\* configureContainerNetwork it still calls netns.Set(hostNs), and nothing
\* else, before it returns the error; inside the child's namespace lo is up
\* before veth1 is up, before the address is added, before the route is
\* added; the host end is configured before veth1 is moved, and the NAT
\* rules are installed only when both ends are configured.
C21_NetworkStepOrder ==
    /\ []NetworkStepOrder
    /\ [][NetFails =>
            IF ppc = "net_container"
            THEN StepCalls = <<"configureContainerNetwork", "netns.Set(hostNs)">>
            ELSE Len(StepCalls) <= 1]_vars

\* configureContainerNetwork has failed at the address of veth1, with lo and
\* veth1 up and no route; netns.Set(hostNs) was called after it and
\* SetupNetworking has returned the error without a call of setupNAT
C21_Witness ==
    /\ ppc = "net_failed"
    /\ Len(NetCalls) = 8
    /\ NetCalls[7] = "configureContainerNetwork"
    /\ NetCalls[8] = "netns.Set(hostNs)"
    /\ <<"child", "veth1", "up">> \in netcfg
    /\ ~Veth1Has("addr ")
    /\ iptables = iptables0

\* the calls of RunContainer up to the start of SetupNetworking, in the
\* order of its source
RunOrder == <<"validateConfig", "PrepareRootFS", "Start", "netns.Get">>

IsRunCall(e) == e \in Range(RunOrder)

\* C22: validateConfig completes before PrepareRootFS starts, PrepareRootFS
\* has succeeded (the six directories exist) before the child is spawned,
\* and the child is spawned before SetupNetworking begins; when
\* PrepareRootFS or the spawn fails there is no child and no network
\* operation.
C22_RunStepOrder ==
    /\ IsPrefix(SelectSeq(plog, IsRunCall), RunOrder)
    /\ Calls("PrepareRootFS") # {} => validateConfig(config, files0) = ""
    /\ Calls("Start") # {} => Range(RequiredDirs(config.RootFS)) \subseteq files
    /\ cState # "none" => Calls("Start") # {}
    /\ NetCalls # <<>> => cState # "none"
    /\ (ParentExited /\ plog # <<>> /\ plog[Len(plog)] \in {"PrepareRootFS", "Start"})
          => /\ cState = "none"
             /\ NetCalls = <<>>
             /\ hostLinks = hostLinks0
             /\ iptables = iptables0
             /\ pExit = 1

\* PrepareRootFS has made some of the directories and failed
C22_Witness ==
    /\ ParentExited
    /\ plog # <<>>
    /\ plog[Len(plog)] = "PrepareRootFS"
    /\ files # files0
    /\ cState = "none"

(***************************************************************************)
(* Claims on the child role, over SpecChild.                               *)
(***************************************************************************)
\* the system calls made by the i-th call of RunChildProcess
KidCallOps(i) ==
    SubSeq(kSt.ops, kCalls[i].from + 1,
           IF i < Len(kCalls) THEN kCalls[i + 1].from ELSE Len(kSt.ops))

\* the calls of RunChildProcess with a given name
KidCalls(name) == {i \in DOMAIN kCalls : kCalls[i].call = name}

Shapes(ops) == [i \in DOMAIN ops |-> <<ops[i].op, ops[i].dst>>]

\* the system calls the bind mounts of a config ask for
RECURSIVE BindPlan(_, _)
BindPlan(mounts, rootFS) ==
    IF Len(mounts) = 0 THEN <<>>
    ELSE LET m  == Head(mounts)
             mp == PathJoin(rootFS, m.Destination)
         IN  <<<<"stat", m.Source>>, <<"mkdir", mp>>, <<"mount", mp>>>>
             \o (IF m.ReadOnly THEN <<<<"remount", mp>>>> ELSE <<>>)
             \o BindPlan(Tail(mounts), rootFS)

\* the steps of the file system setup in the order stated
FsPlan(cfg) ==
    BindPlan(cfg.Mounts, cfg.RootFS)
    \o <<<<"sethostname", "">>, <<"chroot", cfg.RootFS>>, <<"chdir", "/">>,
          <<"mkdir", "/etc">>, <<"write", "/etc/resolv.conf">>,
          <<"mount", "proc">>, <<"mount", "/dev/pts">>>>

\* ops is a run of the plan that stops at the first step that failed
RunsPlan(ops, err, plan) ==
    /\ IsPrefix(Shapes(ops), plan)
    /\ \A j \in 1..(Len(ops) - 1) : ops[j].ok
    /\ (err = "") <=> (Len(ops) = Len(plan) /\ \A j \in DOMAIN ops : ops[j].ok)
    /\ (err # "") => (Len(ops) > 0 /\ ~ops[Len(ops)].ok)

\* the successful bind mount calls among the first n of ops
BindsDone(ops, n) ==
    {j \in 1..n : ops[j].op = "mount" /\ "MS_BIND" \in ops[j].flags /\ ops[j].ok}

\* C23: SetupFilesystem takes its steps in the order bind mounts (in config
\* order), hostname, chroot, chdir, resolv.conf, proc, devpts, each only
\* after all earlier ones succeeded; the chroot comes after every
\* configured bind mount is made, proc and /dev/pts after the chroot.
C23_FilesystemStepOrder ==
    \A i \in KidCalls("SetupFilesystem") :
        LET ops == KidCallOps(i)
        IN  /\ RunsPlan(ops, kCalls[i].err, FsPlan(kConfig))
            /\ \A j \in DOMAIN ops :
                  /\ ops[j].op = "chroot" /\ ops[j].ok
                       => Cardinality(BindsDone(ops, j - 1)) = Len(kConfig.Mounts)
                  /\ ops[j].op = "mount" /\ ops[j].dst \in {"proc", "/dev/pts"}
                       => \E k \in 1..(j - 1) : ops[k].op = "chroot" /\ ops[k].ok

C23_Witness ==
    /\ \E i \in KidCalls("SetupFilesystem") : kCalls[i].err = ""
    /\ Len(kConfig.Mounts) = 2
    /\ kConfig.Mounts[1].ReadOnly
    /\ kConfig.Mounts[1] # kConfig.Mounts[2]

\* the calls of RunChildProcess in the order of the code
KidOrder ==
    <<"configFromEnv", "SetupCgroups", "SetupFilesystem", "cmd.Run", "CleanupFilesystem">>

\* one of the three setup calls has failed
KidSetupFailed == \E i \in DOMAIN kCalls : i <= 3 /\ kCalls[i].err # ""

\* the user command was started (or its start attempted)
KidExecs == {j \in DOMAIN kSt.ops : kSt.ops[j].op = "exec"}

\* C24: the child starts the user command only after configFromEnv,
\* SetupCgroups and SetupFilesystem have succeeded in that order; when one
\* of them fails the child exits non-zero, never starts the command and
\* takes none of the later setup steps.
C24_CommandAfterSetup ==
    /\ IsPrefix([i \in DOMAIN kCalls |-> kCalls[i].call], KidOrder)
    /\ \A i \in DOMAIN kCalls : i <= 3 /\ kCalls[i].err # "" => i = Len(kCalls)
    /\ KidExecs # {} =>
          /\ Len(kCalls) >= 4
          /\ \A i \in 1..3 : kCalls[i].err = ""
          /\ \A j \in KidExecs : j > kCalls[4].from
    /\ KidSetupFailed => KidExecs = {}
    /\ KidSetupFailed /\ kPc = "done" => kExit > 0
    /\ kPc = "done" /\ kExit = 0 => KidExecs # {}

C24_Witness ==
    /\ kPc = "done"
    /\ Len(kCalls) = 3
    /\ kCalls[3].call = "SetupFilesystem"
    /\ \E j \in DOMAIN kSt.ops :
          kSt.ops[j].op = "mount" /\ "MS_BIND" \in kSt.ops[j].flags /\ ~kSt.ops[j].ok
    /\ kExit = 1

\* the pid was written to cgroup.procs of the group among the first n calls
Joined(ops, n) ==
    \E j \in 1..n :
        /\ ops[j].op = "write" /\ ops[j].ok
        /\ ops[j].dst = PathJoin(CgroupPath(NewDefaultCgroupConfig), "cgroup.procs")
        /\ ops[j].src = ChildPid

\* C26: whenever SetupCgroups returns success the process has been written
\* to cgroup.procs of the group, so the file system setup and the user
\* command run inside the group.
C26_JoinedOnSuccess ==
    /\ \A i \in KidCalls("SetupCgroups") :
          kCalls[i].err = "" =>
              Joined(kSt.ops, IF i < Len(kCalls) THEN kCalls[i + 1].from ELSE Len(kSt.ops))
    /\ \A j \in KidExecs : Joined(kSt.ops, j - 1)

\* C27: after the user command has ended the child calls CleanupFilesystem
\* exactly once; it tries to unmount /dev/pts and then proc, the second also
\* when the first failed; RunChildProcess returns the result of the
\* command, never the error of the cleanup.
C27_CleanupAfterCommand ==
    /\ Cardinality(KidCalls("CleanupFilesystem")) <= 1
    /\ \A i \in KidCalls("CleanupFilesystem") :
          /\ i > 1 /\ kCalls[i - 1].call = "cmd.Run"
          /\ Shapes(KidCallOps(i)) = <<<<"unmount", "/dev/pts">>, <<"unmount", "proc">>>>
          /\ kRet = kCalls[i - 1].err
          /\ kPc = "done" => (kExit = 0 <=> kCalls[i - 1].err = "")
    /\ KidCalls("cmd.Run") # {} /\ kPc \in {"return", "done"}
          => KidCalls("CleanupFilesystem") # {}

C27_Witness ==
    /\ kPc = "done"
    /\ \E i \in KidCalls("CleanupFilesystem") :
          /\ kCalls[i].err # ""
          /\ ~KidCallOps(i)[1].ok
          /\ kCalls[i - 1].err = ""
    /\ kRet = ""
    /\ kExit = 0

(***************************************************************************)
(* Claims on SetupCgroups, over SpecCgroups.                               *)
(***************************************************************************)
\* the control files SetupCgroups sets for a config, each with its value
CgroupPlan(cfg) ==
    <<<<"pids.max", cfg.MaxPids>>>>
    \o (IF cfg.MemoryLimit # "" THEN <<<<"memory.max", cfg.MemoryLimit>>>> ELSE <<>>)
    \o (IF cfg.CPUQuota # "" THEN <<<<"cpu.max", cfg.CPUQuota \o " " \o cfg.CPUPeriod>>>>
         ELSE <<>>)
    \o <<<<"cgroup.procs", ChildPid>>>>

\* the calls of ops from the j-th on that Keep picks, in their order
RECURSIVE Select(_, _, _)
Select(ops, Keep(_), j) ==
    IF j > Len(ops) THEN <<>>
    ELSE (IF Keep(ops[j]) THEN <<ops[j]>> ELSE <<>>) \o Select(ops, Keep, j + 1)

IsControlStat(o) == o.op = "stat" /\ o.dst # CgroupPath(gConfig)

IsWrite(o) == o.op = "write"

\* C25: setCgroupValue skips a control file that does not exist without
\* writing and without an error, and fails on a write that fails;
\* SetupCgroups sets pids.max, memory.max when a limit is set, cpu.max when
\* a quota is set and cgroup.procs in this order, and returns at the first
\* write that fails without the later writes.
C25_CgroupWrites ==
    gPc = "done" =>
        LET ops    == gResult.ops
            stats  == Select(ops, IsControlStat, 1)
            writes == Select(ops, IsWrite, 1)
            plan   == CgroupPlan(gConfig)
            path(f) == PathJoin(CgroupPath(gConfig), f)
        IN  /\ IsPrefix([j \in DOMAIN stats |-> stats[j].dst],
                        [j \in DOMAIN plan |-> path(plan[j][1])])
            /\ \A j \in DOMAIN ops :
                  /\ IsWrite(ops[j]) =>
                        /\ j > 1 /\ ops[j - 1] = Op("stat", "", ops[j].dst, {}, TRUE)
                        /\ ops[j].dst \in gResult.files
                        /\ \E k \in DOMAIN plan :
                              ops[j].dst = path(plan[k][1]) /\ ops[j].src = plan[k][2]
                        /\ ops[j].ok <=> <<"write", ops[j].dst>> \notin gRefuse
                        /\ ~ops[j].ok => j = Len(ops) /\ gResult.err # ""
                  /\ IsControlStat(ops[j]) =>
                        /\ ops[j].ok <=> ops[j].dst \in gResult.files
                        /\ ops[j].ok => j < Len(ops) /\ IsWrite(ops[j + 1])
            /\ gResult.err = "" =>
                  /\ Len(stats) = Len(plan)
                  /\ \A j \in DOMAIN ops : ops[j].ok \/ ops[j].op = "stat"
            /\ gResult.err # "" => ~ops[Len(ops)].ok /\ ops[Len(ops)].op \in {"write", "mkdir"}

C25_Witness ==
    /\ gPc = "done"
    /\ gResult.err = ""
    /\ gConfig.MemoryLimit # "" /\ gConfig.CPUQuota # ""
    /\ \E j \in DOMAIN gResult.ops :
          IsControlStat(gResult.ops[j]) /\ ~gResult.ops[j].ok
    /\ \E j \in DOMAIN gResult.ops : IsWrite(gResult.ops[j])

(***************************************************************************)
(* Claims on createBindMount, over SpecBind.                               *)
(***************************************************************************)
\* C28: createBindMount checks that the source exists and makes the mount
\* point under the rootfs before it mounts; a read-only mount gets the bind
\* mount and then a remount with the read-only flag, another mount exactly
\* one mount call; after a success the mount is read-only exactly when its
\* flag is set, and a remount that fails makes createBindMount fail.
C28_BindMount ==
    bPc = "done" =>
        LET ops == bResult.ops
            mp  == PathJoin(bRootfs, bMount.Destination)
        IN  /\ RunsPlan(ops, bResult.err, BindPlan(<<bMount>>, bRootfs))
            /\ bMount.Source \notin bFiles => bResult.err # "" /\ Len(ops) = 1
            /\ \A j \in DOMAIN ops :
                  /\ ops[j].op = "mount" => ops[j].src = bMount.Source /\ "MS_BIND" \in ops[j].flags
                  /\ ops[j].op = "remount" =>
                        {"MS_RDONLY", "MS_REMOUNT"} \subseteq ops[j].flags
                  /\ ~ops[j].ok => bResult.err # ""
            /\ Cardinality({j \in DOMAIN ops : ops[j].op = "remount"}) <=
                  (IF bMount.ReadOnly THEN 1 ELSE 0)
            /\ Cardinality({j \in DOMAIN ops : ops[j].op = "mount"}) <= 1
            /\ bResult.err = "" =>
                  /\ mp \in bResult.files
                  /\ Len(bResult.mounts) = 1
                  /\ bResult.mounts[1].point = mp
                  /\ bResult.mounts[1].source = bMount.Source
                  /\ bResult.mounts[1].ro <=> bMount.ReadOnly

C28_Witness ==
    /\ bPc = "done"
    /\ bResult.err = ""
    /\ bMount.ReadOnly
    /\ bMount.Destination = "app"
    /\ bResult.ops[Len(bResult.ops)].op = "remount"

(***************************************************************************)
(* Two runs with the default names.                                        *)
(***************************************************************************)
\* the run started while another container has its veth0 in the host
\* namespace
OtherContainerUp == hostLinks0 = OtherContainerHost.links

\* C29: a run that reaches createVethPair while the veth0 of another
\* container is in the host namespace fails there, kills its own child and
\* returns an error; it adds and deletes no iptables rule and leaves the
\* other container's veth0, its configuration and its rules as they were.
C29_SecondRunFailsAtVeth ==
    OtherContainerUp =>
        /\ iptables = OtherContainerHost.rules
        /\ hostLinks = OtherContainerHost.links
        /\ netcfg = OtherContainerHost.facts
        /\ "veth1" \notin childLinks
        /\ \A i \in Calls("createVethPair") :
              /\ i = Len(plog) \/ plog[i + 1] = "Kill"
              /\ ppc \in {"net_failed", "exited"}
        /\ Calls("createVethPair") # {} /\ ParentExited =>
              /\ pExit = 1
              /\ Calls("Kill") # {}
              /\ cState \in {"exited", "killed"}
              /\ Calls("CleanupNetwork") = {}
        /\ \A i \in DOMAIN plog :
              plog[i] \notin {"configureHostNetwork", "LinkSetNsFd", "setupNAT",
                              "CleanupNetwork"}

C29_Witness ==
    /\ OtherContainerUp
    /\ Calls("createVethPair") # {}
    /\ ParentExited
    /\ pExit = 1
    /\ cState = "killed"
    /\ hostLinks = OtherContainerHost.links

(***************************************************************************)
(* Termination of the parent, over SpecFair.                               *)
(***************************************************************************)
\* the user command never ends
CommandRunsForever == <>[](cState = "running" /\ cpc = "c_cmd")

\* the parent has run CleanupNetwork and ended
ParentCleanedUp == ParentExited /\ Calls("CleanupNetwork") # {}

\* C30: under fair scheduling of parent and child, unless the user command
\* runs forever, a parent that waits for the child returns from the wait,
\* runs CleanupNetwork and ends; and a parent at any other place of its
\* code goes on until it waits or ends.
C30_ParentTerminates ==
    /\ CommandRunsForever \/ ((ppc = "wait") ~> ParentCleanedUp)
    /\ (~ParentExited /\ ppc # "wait") ~> (ParentExited \/ ppc = "wait")

C30_Witness ==
    /\ ParentCleanedUp
    /\ plog[Len(plog) - 2] = "Wait"
    /\ cState = "exited"
    /\ userExit = 0
    /\ pExit = 0

(***************************************************************************)
(* The exit status of the run process.                                     *)
(***************************************************************************)
\* the process was started as `run` and has ended
RunEnded == Len(osArgs) > 0 /\ osArgs[1] = "run" /\ ParentExited

\* every step of the parent succeeded (each step is followed by the next
\* one), the child got through its setup to the user command, and the
\* command ended with code 0
RunSucceeded ==
    /\ Calls("ParseFlags") # {} /\ Calls("validateConfig") # {}
    /\ Calls("PrepareRootFS") # {}
    /\ Calls("Start") # {} /\ cState # "none"
    /\ Calls("SetupNetworking:ok") # {}
    /\ cConfig # ZeroConfig
    /\ userExit = 0

\* a flag --name=value or -name=value of a defined name
IsValuedFlag(t) ==
    \E name \in DefinedFlags, dashes \in {"-", "--"} :
        HasPrefix(t, dashes \o name \o "=")

\* the flags before the command word come to -h or -help after well-formed
\* flags only
HelpAsked ==
    LET args == Tail(osArgs)
    IN  \E i \in 1..Len(args) :
          /\ args[i] \in {"-h", "--h", "-help", "--help"}
          /\ \A j \in 1..(i - 1) : IsValuedFlag(args[j])
          /\ \E k \in (i + 1)..Len(args) : ~HasPrefix(args[k], "-")

\* C31 as stated: the run process exits with code 0 if and only if the
\* command line parsed, validation, rootfs preparation, spawn and network
\* setup succeeded, the child's cgroup and filesystem setup succeeded and
\* the user command exited with code 0; otherwise it exits non-zero.
C31_ExitZeroIffAllSucceeded ==
    RunEnded => (pExit = 0 <=> RunSucceeded)

\* C31: the run process exits with code 0 if and only if either every step
\* succeeded in the parent and in the child and the user command exited
\* with code 0, or the flags before the command asked for help (the flag
\* set prints its usage and ends the process with 0 before anything is
\* validated or started); in every other case it exits non-zero.
C31_ExitZeroIffSucceededOrHelp ==
    RunEnded =>
        /\ pExit = 0 <=> (RunSucceeded \/ (euid = 0 /\ HelpAsked))
        /\ pExit >= 0
        /\ HelpAsked => Calls("validateConfig") = {} /\ cState = "none"

C31_Witness ==
    /\ RunEnded
    /\ RunSucceeded
    /\ pExit = 0
    /\ Len(config.Mounts) = 1
    /\ config.Mounts[1].ReadOnly

====
